---- MODULE Spec2Model ----
(***************************************************************************)
(* Resilient API access layer of the SafetyCulture agent: the circuit      *)
(* breaker (utils/circuit_breaker.py), the token-bucket rate limiter       *)
(* (utils/rate_limiter.py), the credential cache                           *)
(* (config/credential_manager.py) and the request path of                  *)
(* SafetyCultureAPIClient (tools/safetyculture_api_client.py).             *)
(*                                                                         *)
(* Time is an integer clock `now`.  Tasks are asyncio tasks sharing one    *)
(* breaker and one limiter; an action is the code a task runs between two  *)
(* suspension points.                                                      *)
(***************************************************************************)
EXTENDS Integers, Sequences, FiniteSets, TLC

\* ---------------------------------------------------------------- bounds
Tasks == {"t1", "t2"}

MaxTime == 4
MaxCalls == 5
MaxFailureThreshold == 2
MaxSuccessThreshold == 2
MaxBaseTimeout == 2
MaxMaxTimeout == 3

\* the client: requests issued, clock ticks taken, configured retries
ClientTasks == {"t1"}
MaxRequests == 7
MaxClientTicks == 6
ClientTick == 60000
MaxMaxRetries == 2

\* ------------------------------------------------------------- constants
CLOSED == "closed"
OPEN == "open"
HALF_OPEN == "half_open"

EXPONENTIAL_BACKOFF_BASE == 2

NoError == "none"
CircuitBreakerOpenError == "CircuitBreakerOpenError"
FuncException == "Exception"

Min(a, b) == IF a <= b THEN a ELSE b

None == "None"

\* seconds to clock units (milliseconds); tokens are kept in thousandths
Ms(seconds) == seconds * 1000

VARIABLES
  cb,           \* the CircuitBreaker object
  now,          \* the clock: time.time() / time.monotonic()
  task,         \* per asyncio task: position and the request it is serving
  hist,         \* history of recorded results (see HistAfter...)
  bucket,       \* the TokenBucketRateLimiter object
  bucket_lock,  \* holder of TokenBucketRateLimiter._lock, or None
  backoff,      \* the ExponentialBackoffRateLimiter object
  cred,         \* SecureCredentialManager._cached_token and the secret source
  config        \* SafetyCultureConfig

vars == <<cb, now, task, hist, bucket, bucket_lock, backoff, cred, config>>
clientVars == <<bucket, bucket_lock, backoff, cred, config>>

\* ------------------------------------------------------- circuit breaker
\* CircuitBreaker.__init__
NewBreaker(ft, st, bt, mt) ==
  [ failure_threshold |-> ft, success_threshold |-> st,
    base_timeout |-> bt, max_timeout |-> mt,
    state |-> CLOSED, failure_count |-> 0, success_count |-> 0,
    last_failure_time |-> 0, open_count |-> 0,
    total_calls |-> 0, total_failures |-> 0, total_successes |-> 0 ]

CalculateTimeout_NoCap(b) ==
  b.base_timeout * (EXPONENTIAL_BACKOFF_BASE ^ b.open_count)

\* CircuitBreaker._calculate_timeout
CalculateTimeout(b) ==
  Min(b.base_timeout * (EXPONENTIAL_BACKOFF_BASE ^ b.open_count), b.max_timeout)

ShouldAttemptReset_Always(b, clock) == b.state = OPEN

\* CircuitBreaker._should_attempt_reset
ShouldAttemptReset(b, clock) ==
  IF b.state # OPEN THEN FALSE
  ELSE clock - b.last_failure_time >= CalculateTimeout(b)

TransitionToOpen_KeepCount(b, clock) ==
  [b EXCEPT !.state = OPEN, !.last_failure_time = clock, !.success_count = 0]

\* CircuitBreaker._transition_to_open
TransitionToOpen(b, clock) ==
  [b EXCEPT !.state = OPEN, !.last_failure_time = clock,
            !.open_count = @ + 1, !.success_count = 0]

\* CircuitBreaker._transition_to_half_open
TransitionToHalfOpen(b) ==
  [b EXCEPT !.state = HALF_OPEN, !.success_count = 0]

\* CircuitBreaker._transition_to_closed
TransitionToClosed(b) ==
  [b EXCEPT !.state = CLOSED, !.failure_count = 0, !.success_count = 0,
            !.open_count = 0]

RecordSuccess_FirstCloses(b) ==
  LET b1 == [b EXCEPT !.total_successes = @ + 1] IN
  IF b1.state = HALF_OPEN THEN TransitionToClosed(b1)
  ELSE IF b1.state = CLOSED THEN [b1 EXCEPT !.failure_count = 0]
  ELSE b1

\* CircuitBreaker._record_success
RecordSuccess(b) ==
  LET b1 == [b EXCEPT !.total_successes = @ + 1] IN
  IF b1.state = HALF_OPEN
  THEN LET b2 == [b1 EXCEPT !.success_count = @ + 1] IN
       IF b2.success_count >= b2.success_threshold
       THEN TransitionToClosed(b2) ELSE b2
  ELSE IF b1.state = CLOSED THEN [b1 EXCEPT !.failure_count = 0]
  ELSE b1

RecordFailure_OffByOne(b, clock) ==
  LET b1 == [b EXCEPT !.total_failures = @ + 1] IN
  IF b1.state = HALF_OPEN THEN TransitionToOpen(b1, clock)
  ELSE IF b1.state = CLOSED
  THEN LET b2 == [b1 EXCEPT !.failure_count = @ + 1] IN
       IF b2.failure_count > b2.failure_threshold
       THEN TransitionToOpen(b2, clock) ELSE b2
  ELSE b1

\* CircuitBreaker._record_failure
RecordFailure(b, clock) ==
  LET b1 == [b EXCEPT !.total_failures = @ + 1] IN
  IF b1.state = HALF_OPEN THEN TransitionToOpen(b1, clock)
  ELSE IF b1.state = CLOSED
  THEN LET b2 == [b1 EXCEPT !.failure_count = @ + 1] IN
       IF b2.failure_count >= b2.failure_threshold
       THEN TransitionToOpen(b2, clock) ELSE b2
  ELSE b1

CallEntry_AdmitsAll(b, clock) ==
  LET b1 == [b EXCEPT !.total_calls = @ + 1]
      b2 == IF ShouldAttemptReset(b1, clock) THEN TransitionToHalfOpen(b1) ELSE b1
  IN  [breaker |-> b2, admitted |-> TRUE]

CallEntry_RejectMovesDeadline(b, clock) ==
  LET b1 == [b EXCEPT !.total_calls = @ + 1]
      b2 == IF ShouldAttemptReset(b1, clock) THEN TransitionToHalfOpen(b1) ELSE b1
  IN  [breaker |-> IF b2.state = OPEN THEN [b2 EXCEPT !.last_failure_time = clock] ELSE b2,
       admitted |-> b2.state # OPEN]

\* CircuitBreaker.call, the first critical section: count the call, try the
\* OPEN -> HALF_OPEN reset, and tell whether the call is admitted.
CallEntry(b, clock) ==
  LET b1 == [b EXCEPT !.total_calls = @ + 1]
      b2 == IF ShouldAttemptReset(b1, clock) THEN TransitionToHalfOpen(b1) ELSE b1
  IN  [breaker |-> b2, admitted |-> b2.state # OPEN]

\* CircuitBreaker.reset
ResetBreaker(b) ==
  [b EXCEPT !.state = CLOSED, !.failure_count = 0, !.success_count = 0,
            !.open_count = 0, !.last_failure_time = 0]

\* History of recorded results, kept beside the breaker:
\*   streak       failures recorded since the last recorded success (or since
\*                construction / reset)
\*   ho_successes successes recorded since the breaker last entered HALF_OPEN
HistAfterSuccess(h, b) ==
  [h EXCEPT !.streak = 0,
            !.ho_successes = IF b.state = HALF_OPEN THEN @ + 1 ELSE @]
HistAfterFailure(h) ==
  [h EXCEPT !.streak = @ + 1]
HistAfterEntry(h, b, b2) ==
  IF b.state = OPEN /\ b2.state = HALF_OPEN THEN [h EXCEPT !.ho_successes = 0] ELSE h

\* A task that is not inside a call; the request fields are those of the
\* request it served last.
NewTask ==
  [ pc |-> "idle", outcome |-> NoError, status_code |-> 0, retry_after |-> None,
    endpoint_ok |-> TRUE, params_ok |-> TRUE, retry_count |-> 0,
    responses |-> <<>>, sleeps |-> <<>>, tokens_taken |-> 0,
    wake |-> 0, wait_start |-> 0, acq_phase |-> 1 ]

NewHist == [streak |-> 0, ho_successes |-> 0, http_streak |-> 0]

\* ---- actions of the generic breaker: call(fn) with an arbitrary fn
\* CircuitBreaker.call up to the invocation of func
Call(t) ==
  /\ task[t].pc = "idle"
  /\ cb.total_calls < MaxCalls
  /\ LET e == CallEntry(cb, now) IN
     /\ cb' = e.breaker
     /\ hist' = HistAfterEntry(hist, cb, e.breaker)
     /\ task' = [task EXCEPT ![t] =
                   IF e.admitted
                   THEN [@ EXCEPT !.pc = "in_func", !.outcome = NoError]
                   ELSE [@ EXCEPT !.pc = "idle", !.outcome = CircuitBreakerOpenError]]
  /\ UNCHANGED <<now, clientVars>>

\* func returned: second critical section records the success
FuncReturns(t) ==
  /\ task[t].pc = "in_func"
  /\ cb' = RecordSuccess(cb)
  /\ hist' = HistAfterSuccess(hist, cb)
  /\ task' = [task EXCEPT ![t] = [@ EXCEPT !.pc = "idle", !.outcome = "ok"]]
  /\ UNCHANGED <<now, clientVars>>

\* func raised: the except branch records the failure and re-raises
FuncRaises(t) ==
  /\ task[t].pc = "in_func"
  /\ cb' = RecordFailure(cb, now)
  /\ hist' = HistAfterFailure(hist)
  /\ task' = [task EXCEPT ![t] = [@ EXCEPT !.pc = "idle", !.outcome = FuncException]]
  /\ UNCHANGED <<now, clientVars>>

\* CircuitBreaker.reset called by an administrator
Reset ==
  /\ cb' = ResetBreaker(cb)
  /\ hist' = [hist EXCEPT !.streak = 0, !.ho_successes = 0]
  /\ UNCHANGED <<now, task, clientVars>>

\* time.time() advances
Tick ==
  /\ now < MaxTime
  /\ now' = now + 1
  /\ UNCHANGED <<cb, task, hist, clientVars>>

\* ------------------------------------------------------------ rate limiter
DEFAULT_MAX_WAIT == 30
DEFAULT_BACKOFF_MULTIPLIER == 2
BUCKET_POLL_MS == 100

\* TokenBucketRateLimiter.__init__ (tokens in thousandths, times in ms)
NewBucket(rate, burst, clock) ==
  [ rate |-> rate, burst |-> burst, max_wait |-> Ms(DEFAULT_MAX_WAIT),
    tokens |-> 1000 * burst, last_update |-> clock ]

\* ExponentialBackoffRateLimiter.__init__
NewBackoff(initial, max) ==
  [ initial_backoff |-> initial, max_backoff |-> max,
    backoff_multiplier |-> DEFAULT_BACKOFF_MULTIPLIER,
    current_backoff |-> initial, consecutive_failures |-> 0 ]

RefillTokens_NoRefill(bk, clock) ==
  [bk EXCEPT !.last_update = clock]

\* TokenBucketRateLimiter._refill_tokens
RefillTokens(bk, clock) ==
  [bk EXCEPT !.tokens = Min(1000 * bk.burst, @ + (clock - bk.last_update) * bk.rate),
             !.last_update = clock]

\* ------------------------------------------------------------- credentials
\* SecureCredentialManager.get_api_token: the cache, then the secret source
\* (get_secret); the token found there is cached.
GetApiToken(c) ==
  IF c.cached_token # None THEN [token |-> c.cached_token, cred |-> c]
  ELSE IF c.secret_token = None THEN [token |-> None, cred |-> c]
  ELSE [token |-> c.secret_token, cred |-> [c EXCEPT !.cached_token = c.secret_token]]

\* SecureCredentialManager.rotate_token with a non-empty string
RotateToken(new) ==
  /\ cred' = [cred EXCEPT !.cached_token = new]
  /\ UNCHANGED <<cb, now, task, hist, bucket, bucket_lock, backoff, config>>

\* SecureCredentialManager.revoke_token
RevokeToken ==
  /\ cred' = [cred EXCEPT !.cached_token = None]
  /\ UNCHANGED <<cb, now, task, hist, bucket, bucket_lock, backoff, config>>

\* ------------------------------------------------------------- API client
RATE_LIMIT_BURST_MULTIPLIER == 2
INITIAL_BACKOFF_SECONDS == 1
MAX_BACKOFF_SECONDS == 30
CIRCUIT_BREAKER_FAILURE_THRESHOLD == 5
CIRCUIT_BREAKER_SUCCESS_THRESHOLD == 2
CIRCUIT_BREAKER_BASE_TIMEOUT_SECONDS == 60
CIRCUIT_BREAKER_MAX_TIMEOUT_SECONDS == 600
DEFAULT_RETRY_AFTER_SECONDS == 60
CLIENT_BACKOFF_BASE == 2

ValidationError == "SafetyCultureValidationError"
CredentialError == "SafetyCultureCredentialError"
RateLimitError == "SafetyCultureRateLimitError"
AuthError == "SafetyCultureAuthError"
APIError == "SafetyCultureAPIError"
\* exceptions of the standard library that the request path does not wrap
TimeoutError == "asyncio.TimeoutError"
JSONDecodeError == "json.JSONDecodeError"

\* What the transport can answer to one HTTP attempt: a response with a status
\* (429 with or without a Retry-After header, a string), an
\* aiohttp.ClientError (status 0: there is no response), an
\* asyncio.TimeoutError raised by the session, or a 200 response whose body
\* response.json() cannot parse.  A status_code of 0 in a raised error stands
\* for Python's None.
HttpResponses ==
  { [kind |-> "response", status |-> s, retry_after |-> None] :
      s \in {200, 401, 404, 500} }
  \cup { [kind |-> "response", status |-> 429, retry_after |-> h] : h \in {None, "5", "60"} }
  \cup { [kind |-> "client_error", status |-> 0, retry_after |-> None] }
  \cup { [kind |-> "timeout", status |-> 0, retry_after |-> None] }
  \cup { [kind |-> "bad_json", status |-> 200, retry_after |-> None] }

\* The retried kinds: raise_for_status raises ClientResponseError for a status
\* of 400 and above (429 and 401 were raised before it as typed errors), and
\* the session raises ClientError on a network failure.
IsServerOrNetworkError(r) ==
  \/ r.kind = "client_error"
  \/ r.kind = "response" /\ r.status >= 500

\* str(n) for the numbers that occur
Str(n) == IF n = 60 THEN "60" ELSE IF n = 5 THEN "5" ELSE "0"

RetryAfterOf_Zero(r) == IF r.retry_after = None THEN "0" ELSE r.retry_after

\* _make_request_internal lines 294-297: the Retry-After header or the default
RetryAfterOf(r) ==
  IF r.retry_after = None THEN Str(DEFAULT_RETRY_AFTER_SECONDS) ELSE r.retry_after

Classify_RetryAuth(r) ==
  IF r.kind = "client_error" THEN "retry"
  ELSE IF r.kind = "timeout" THEN TimeoutError
  ELSE IF r.kind = "bad_json" THEN JSONDecodeError
  ELSE IF r.status = 429 THEN RateLimitError
  ELSE IF r.status >= 400 THEN "retry"
  ELSE "ok"

\* _make_request_internal lines 281-342: what one answer leads to: an
\* exception raised past the retry handlers (which catch aiohttp.ClientError
\* and its subclasses only), the retry handlers, or the result.
Classify(r) ==
  IF r.kind = "client_error" THEN "retry"
  ELSE IF r.kind = "timeout" THEN TimeoutError
  ELSE IF r.kind = "bad_json" THEN JSONDecodeError
  ELSE IF r.status = 429 THEN RateLimitError
  ELSE IF r.status = 401 THEN AuthError
  ELSE IF r.status >= 400 THEN "retry"
  ELSE "ok"

CanRetry_OneMore(rc, cfg) ==
  rc <= cfg.max_retries

\* lines 315 and 332: retry_count < self.config.max_retries
CanRetry(rc, cfg) ==
  rc < cfg.max_retries

\* lines 316-318 and 333-335: retry_delay * (EXPONENTIAL_BACKOFF_BASE ** retry_count)
RetryDelay(rc, cfg) ==
  cfg.retry_delay * (CLIENT_BACKOFF_BASE ^ rc)

\* _make_request_internal lines 218-233, run once the token is held:
\* validate_endpoint, validate_and_enforce_https, validate_params,
\* get_api_token.  The exception raised (or NoError) and the credentials then.
Preflight(tk, c) ==
  IF ~tk.endpoint_ok THEN [exc |-> ValidationError, cred |-> c]
  ELSE IF ~tk.params_ok THEN [exc |-> ValidationError, cred |-> c]
  ELSE LET g == GetApiToken(c) IN
       IF g.token = None THEN [exc |-> CredentialError, cred |-> c]
       ELSE [exc |-> NoError, cred |-> g.cred]

\* History of the client's requests:
\*   http_streak  requests in a row that ended in SafetyCultureAPIError after a
\*                server (5xx) or network error; a request rejected by the open
\*                breaker leaves it, any other end of a request resets it
HistAfterRequestFailure(h, viaHttp) ==
  [h EXCEPT !.streak = @ + 1, !.http_streak = IF viaHttp THEN @ + 1 ELSE 0]
HistAfterRequestSuccess(h, b) ==
  [HistAfterSuccess(h, b) EXCEPT !.http_streak = 0]

\* An exception leaves _make_request_internal: CircuitBreaker.call records the
\* failure and re-raises it to the caller of the request.
RaiseFromFunc(t, tk, exc, status, retryAfter, viaHttp) ==
  /\ cb' = RecordFailure(cb, now)
  /\ hist' = HistAfterRequestFailure(hist, viaHttp)
  /\ task' = [task EXCEPT ![t] =
       [tk EXCEPT !.pc = "idle", !.outcome = exc, !.status_code = status,
                  !.retry_after = retryAfter, !.wake = 0, !.wait_start = 0]]

\* SafetyCultureAPIClient._make_request: the breaker's first critical section
\* for a request with the given endpoint and parameters.
MakeRequest(t) ==
  /\ task[t].pc = "idle"
  /\ cb.total_calls < MaxRequests
  /\ \E eok \in BOOLEAN, pok \in BOOLEAN :
       LET e == CallEntry(cb, now)
           fresh == [NewTask EXCEPT !.endpoint_ok = eok, !.params_ok = pok]
       IN
       /\ cb' = e.breaker
       /\ hist' = HistAfterEntry(hist, cb, e.breaker)
       /\ task' = [task EXCEPT ![t] =
                     IF e.admitted
                     THEN [fresh EXCEPT !.pc = "in_func"]
                     ELSE [fresh EXCEPT !.pc = "idle", !.outcome = CircuitBreakerOpenError]]
  /\ UNCHANGED <<now, clientVars>>

\* One pass of the loop of TokenBucketRateLimiter.acquire(1) under the lock,
\* as called by ExponentialBackoffRateLimiter.acquire from
\* _make_request_internal (line 213), continued to the next suspension point.
AcquirePass(t, tk) ==
  LET bk == RefillTokens(bucket, now) IN
  IF bk.tokens >= 1000
  THEN \* granted: deduct, release the lock; the first attempt resets the backoff
    LET tk2 == [tk EXCEPT !.tokens_taken = @ + 1]
        pre == Preflight(tk2, cred)
    IN
    /\ bucket' = [bk EXCEPT !.tokens = @ - 1000]
    /\ bucket_lock' = None
    /\ backoff' = IF tk.acq_phase = 1
                  THEN [backoff EXCEPT !.current_backoff = backoff.initial_backoff,
                                       !.consecutive_failures = 0]
                  ELSE backoff
    /\ cred' = pre.cred
    /\ IF pre.exc = NoError
       THEN /\ task' = [task EXCEPT ![t] = [tk2 EXCEPT !.pc = "http"]]
            /\ UNCHANGED <<cb, hist>>
       ELSE RaiseFromFunc(t, tk2, pre.exc, 0, None, FALSE)
  ELSE IF now - tk.wait_start >= bucket.max_wait
  THEN \* the bucket raises SafetyCultureRateLimitError
    /\ bucket' = bk
    /\ bucket_lock' = None
    /\ cred' = cred
    /\ IF tk.acq_phase = 1
       THEN /\ backoff' = [backoff EXCEPT !.consecutive_failures = @ + 1]
            /\ task' = [task EXCEPT ![t] =
                 [tk EXCEPT !.pc = "backoff_sleep",
                            !.wake = now + Ms(backoff.current_backoff)]]
            /\ UNCHANGED <<cb, hist>>
       ELSE /\ backoff' = backoff
            /\ RaiseFromFunc(t, tk, RateLimitError, 0, None, FALSE)
  ELSE \* sleep min(wait_seconds, 0.1) with the lock held
    LET needed == 1000 - bk.tokens
        wait_ms == (needed + bk.rate - 1) \div bk.rate
    IN
    /\ bucket' = bk
    /\ bucket_lock' = t
    /\ task' = [task EXCEPT ![t] =
         [tk EXCEPT !.pc = "bucket_wait", !.wake = now + Min(wait_ms, BUCKET_POLL_MS)]]
    /\ UNCHANGED <<cb, hist, backoff, cred>>

\* _make_request_internal starts (or restarts, on a retry): the lock of the
\* bucket is free and the task takes it
Acquire(t) ==
  /\ task[t].pc = "in_func"
  /\ bucket_lock = None
  /\ AcquirePass(t, [task[t] EXCEPT !.wait_start = now])
  /\ UNCHANGED <<now, config>>

\* the sleep inside TokenBucketRateLimiter.acquire is over
BucketWake(t) ==
  /\ task[t].pc = "bucket_wait"
  /\ now >= task[t].wake
  /\ AcquirePass(t, task[t])
  /\ UNCHANGED <<now, config>>

\* the backoff sleep of ExponentialBackoffRateLimiter.acquire is over: the
\* backoff grows and the bucket is tried once more
BackoffWake(t) ==
  /\ task[t].pc = "backoff_sleep"
  /\ now >= task[t].wake
  /\ backoff' = [backoff EXCEPT !.current_backoff =
                   Min(backoff.max_backoff, @ * backoff.backoff_multiplier)]
  /\ task' = [task EXCEPT ![t] = [@ EXCEPT !.pc = "in_func", !.acq_phase = 2]]
  /\ UNCHANGED <<cb, now, hist, bucket, bucket_lock, cred, config>>

\* The transport answers the HTTP attempt of line 281.
HttpResponds(t) ==
  /\ task[t].pc = "http"
  /\ \E r \in HttpResponses :
       LET tk == [task[t] EXCEPT !.responses = Append(@, r)]
           c == Classify(r)
       IN
       IF c = "ok"
       THEN /\ cb' = RecordSuccess(cb)
            /\ hist' = HistAfterRequestSuccess(hist, cb)
            /\ task' = [task EXCEPT ![t] =
                 [tk EXCEPT !.pc = "idle", !.outcome = "ok", !.wake = 0, !.wait_start = 0]]
       ELSE IF c = RateLimitError
       THEN RaiseFromFunc(t, tk, RateLimitError, 0, RetryAfterOf(r), FALSE)
       ELSE IF c = AuthError
       THEN RaiseFromFunc(t, tk, AuthError, 0, None, FALSE)
       ELSE IF c \in {TimeoutError, JSONDecodeError}
       THEN RaiseFromFunc(t, tk, c, 0, None, FALSE)
       ELSE IF CanRetry(tk.retry_count, config)
       THEN /\ task' = [task EXCEPT ![t] =
                 [tk EXCEPT !.pc = "retry_sleep",
                            !.sleeps = Append(@, RetryDelay(tk.retry_count, config)),
                            !.wake = now + Ms(RetryDelay(tk.retry_count, config))]]
            /\ UNCHANGED <<cb, hist>>
       ELSE RaiseFromFunc(t, tk, APIError,
                          IF r.kind = "response" THEN r.status ELSE 0, None,
                          IsServerOrNetworkError(r))
  /\ UNCHANGED <<now, clientVars>>

\* a retry that goes straight to the transport on the token of the first
\* attempt
RetryWake_SkipAcquire(t) ==
  /\ task[t].pc = "retry_sleep"
  /\ now >= task[t].wake
  /\ task' = [task EXCEPT ![t] =
       [@ EXCEPT !.pc = "http", !.retry_count = @ + 1, !.acq_phase = 1]]
  /\ UNCHANGED <<cb, now, hist, clientVars>>

\* the retry sleep is over: _make_request_internal calls itself with
\* retry_count + 1
RetryWake(t) ==
  /\ task[t].pc = "retry_sleep"
  /\ now >= task[t].wake
  /\ task' = [task EXCEPT ![t] =
       [@ EXCEPT !.pc = "in_func", !.retry_count = @ + 1, !.acq_phase = 1]]
  /\ UNCHANGED <<cb, now, hist, clientVars>>

\* the clock as the client's tasks read it; a sleeping task wakes at the
\* first reading that is not before its due time
ClientClock ==
  /\ now + ClientTick <= ClientTick * MaxClientTicks
  /\ now' = now + ClientTick
  /\ UNCHANGED <<cb, task, hist, clientVars>>

\* ---------------------------------------------------------- specifications
InitBreaker ==
  /\ \E ft \in 1..MaxFailureThreshold, st \in 1..MaxSuccessThreshold,
        bt \in 1..MaxBaseTimeout, mt \in 1..MaxMaxTimeout :
       cb = NewBreaker(ft, st, bt, mt)
  /\ now = 0
  /\ task = [t \in Tasks |-> NewTask]
  /\ hist = NewHist
  /\ bucket = NewBucket(1, 1, 0)
  /\ bucket_lock = None
  /\ backoff = NewBackoff(1, 1)
  /\ cred = [cached_token |-> None, secret_token |-> None]
  /\ config = [requests_per_second |-> 1, max_retries |-> 0, retry_delay |-> 1]

NextBreaker ==
  \/ \E t \in Tasks : Call(t)
  \/ \E t \in Tasks : FuncReturns(t)
  \/ \E t \in Tasks : FuncRaises(t)
  \/ Reset
  \/ Tick

SpecBreaker == InitBreaker /\ [][NextBreaker]_vars

\* SafetyCultureAPIClient.__init__ over a SafetyCultureConfig
InitClient ==
  /\ \E mr \in 0..MaxMaxRetries :
       config = [requests_per_second |-> 1, max_retries |-> mr, retry_delay |-> 1]
  /\ cb = NewBreaker(CIRCUIT_BREAKER_FAILURE_THRESHOLD,
                     CIRCUIT_BREAKER_SUCCESS_THRESHOLD,
                     Ms(CIRCUIT_BREAKER_BASE_TIMEOUT_SECONDS),
                     Ms(CIRCUIT_BREAKER_MAX_TIMEOUT_SECONDS))
  /\ now = 0
  /\ task = [t \in ClientTasks |-> NewTask]
  /\ hist = NewHist
  /\ bucket = NewBucket(config.requests_per_second,
                        config.requests_per_second * RATE_LIMIT_BURST_MULTIPLIER, 0)
  /\ bucket_lock = None
  /\ backoff = NewBackoff(INITIAL_BACKOFF_SECONDS, MAX_BACKOFF_SECONDS)
  /\ \E st \in {None, "env-token"} : cred = [cached_token |-> None, secret_token |-> st]

NextClient ==
  \/ \E t \in ClientTasks : MakeRequest(t)
  \/ \E t \in ClientTasks : Acquire(t)
  \/ \E t \in ClientTasks : BucketWake(t)
  \/ \E t \in ClientTasks : HttpResponds(t)
  \/ \E t \in ClientTasks : RetryWake(t)
  \/ ClientClock

SpecClient == InitClient /\ [][NextClient]_vars

\* ------------------------------------------- the rate limiter on its own
\* Tasks calling one TokenBucketRateLimiter (acquire, try_acquire, reset) or
\* one ExponentialBackoffRateLimiter (acquire, reset) directly.
LimiterTasks == {"t1", "t2"}
MaxRate == 2
MaxTokens == 2
MaxMaxWait == 1
MaxLimiterCalls == 3
MaxLimiterTicks == 4
LimiterTick == 500
MaxBackoffCalls == 4
MaxBackoffTicks == 9
BackoffTick == 10000
BackoffBurst == 40
MaxMaxBackoff == 3
ValueError == "ValueError"

\* A task at the limiter: the call it is in (op, n, phase of the backoff
\* limiter's acquire), where it is suspended (pc), and what it got: result,
\* the tokens granted by its last call, the backoff delays it slept.
NewLimiterTask ==
  [ pc |-> "idle", op |-> "none", n |-> 0, phase |-> 0, result |-> NoError,
    tokens_taken |-> 0, sleeps |-> <<>>, wait_start |-> 0, wake |-> 0 ]

\* History of the calls made on the limiter:
\*   calls          calls started
\*   last_arrival   time of the last call started (-1: none yet)
\*   spaced         every call so far was an acquire(1) that arrived at least
\*                  1/rate after the call before it
\*   try_blocked    try_acquire calls that had to wait for the lock
NewLimiterHist ==
  [ calls |-> 0, last_arrival |-> -1, spaced |-> TRUE, try_blocked |-> 0 ]

HistAfterArrival(h, bk, op, n, clock) ==
  [h EXCEPT !.calls = @ + 1,
            !.last_arrival = clock,
            !.spaced = /\ @
                       /\ op = "acquire" /\ n = 1
                       /\ (h.last_arrival = -1
                           \/ (clock - h.last_arrival) * bk.rate >= 1000)]

\* the call of a task is over
Finished(tk) ==
  [tk EXCEPT !.pc = "idle", !.wake = 0, !.wait_start = 0]

BucketAcquirePass_DeductOne(bk, n, waitStart, clock) ==
  LET b1 == RefillTokens(bk, clock) IN
  IF b1.tokens >= 1000 * n
  THEN [bucket |-> [b1 EXCEPT !.tokens = @ - 1000], result |-> "granted", wake |-> 0]
  ELSE IF clock - waitStart >= b1.max_wait
  THEN [bucket |-> b1, result |-> "rejected", wake |-> 0]
  ELSE [bucket |-> b1, result |-> "sleep",
        wake |-> clock + Min((1000 * n - b1.tokens + b1.rate - 1) \div b1.rate,
                             BUCKET_POLL_MS)]

\* TokenBucketRateLimiter.acquire, one pass of the loop (lines 103-128):
\* refill, then grant, or reject when max_wait has passed, or sleep
\* min(wait_seconds, 0.1).
BucketAcquirePass(bk, n, waitStart, clock) ==
  LET b1 == RefillTokens(bk, clock) IN
  IF b1.tokens >= 1000 * n
  THEN [bucket |-> [b1 EXCEPT !.tokens = @ - 1000 * n], result |-> "granted", wake |-> 0]
  ELSE IF clock - waitStart >= b1.max_wait
  THEN [bucket |-> b1, result |-> "rejected", wake |-> 0]
  ELSE [bucket |-> b1, result |-> "sleep",
        wake |-> clock + Min((1000 * n - b1.tokens + b1.rate - 1) \div b1.rate,
                             BUCKET_POLL_MS)]

\* TokenBucketRateLimiter.try_acquire under the lock (lines 140-153)
BucketTryAcquire(bk, n, clock) ==
  LET b1 == RefillTokens(bk, clock) IN
  IF b1.tokens >= 1000 * n
  THEN [bucket |-> [b1 EXCEPT !.tokens = @ - 1000 * n], result |-> TRUE]
  ELSE [bucket |-> b1, result |-> FALSE]

\* TokenBucketRateLimiter.reset under the lock (lines 169-172)
BucketReset(bk, clock) ==
  [bk EXCEPT !.tokens = 1000 * bk.burst, !.last_update = clock]

BackoffAfterReject_NoCap(bo) ==
  [bo EXCEPT !.current_backoff = @ * bo.backoff_multiplier]

\* ExponentialBackoffRateLimiter.acquire lines 234-238: the backoff grows
BackoffAfterReject(bo) ==
  [bo EXCEPT !.current_backoff = Min(bo.max_backoff, @ * bo.backoff_multiplier)]

\* ExponentialBackoffRateLimiter.acquire lines 219-221 and reset lines 246-247
BackoffCleared(bo) ==
  [bo EXCEPT !.current_backoff = bo.initial_backoff, !.consecutive_failures = 0]

\* The task holds the lock (or has just taken it) and runs to its next
\* suspension point or to the end of its call.
UnderLock(t, tk) ==
  IF tk.op = "try_acquire"
  THEN LET r == BucketTryAcquire(bucket, tk.n, now) IN
       /\ bucket' = r.bucket
       /\ bucket_lock' = None
       /\ task' = [task EXCEPT ![t] =
            [Finished(tk) EXCEPT !.result = IF r.result THEN "True" ELSE "False",
                       !.tokens_taken = IF r.result THEN tk.n ELSE 0]]
       /\ UNCHANGED backoff
  ELSE IF tk.op = "reset"
  THEN /\ bucket' = BucketReset(bucket, now)
       /\ bucket_lock' = None
       /\ task' = [task EXCEPT ![t] = [Finished(tk) EXCEPT !.result = "ok"]]
       /\ backoff' = IF tk.phase = 0 THEN backoff ELSE BackoffCleared(backoff)
  ELSE LET r == BucketAcquirePass(bucket, tk.n, tk.wait_start, now) IN
       /\ bucket' = r.bucket
       /\ IF r.result = "granted"
          THEN /\ bucket_lock' = None
               /\ task' = [task EXCEPT ![t] =
                    [Finished(tk) EXCEPT !.result = "ok", !.tokens_taken = tk.n]]
               /\ backoff' = IF tk.phase = 1 THEN BackoffCleared(backoff) ELSE backoff
          ELSE IF r.result = "rejected"
          THEN /\ bucket_lock' = None
               /\ IF tk.phase = 1
                  THEN /\ backoff' = [backoff EXCEPT !.consecutive_failures = @ + 1]
                       /\ task' = [task EXCEPT ![t] =
                            [tk EXCEPT !.pc = "backoff_sleep",
                                       !.sleeps = Append(@, backoff.current_backoff),
                                       !.wake = now + Ms(backoff.current_backoff)]]
                  ELSE /\ backoff' = backoff
                       /\ task' = [task EXCEPT ![t] =
                            [Finished(tk) EXCEPT !.result = RateLimitError]]
          ELSE /\ bucket_lock' = t
               /\ task' = [task EXCEPT ![t] =
                    [tk EXCEPT !.pc = "bucket_wait", !.wake = r.wake]]
               /\ backoff' = backoff

\* A task enters `async with self._lock`: it goes on at once when the lock
\* is free and is suspended otherwise.
EnterLock(t, tk) ==
  IF bucket_lock = None
  THEN UnderLock(t, [tk EXCEPT !.wait_start = now])
  ELSE /\ task' = [task EXCEPT ![t] = [tk EXCEPT !.pc = "lock_wait"]]
       /\ UNCHANGED <<bucket, bucket_lock, backoff>>

\* TokenBucketRateLimiter.acquire(n) is called (phase 0: on the bucket itself)
LimAcquire(t) ==
  /\ task[t].pc = "idle"
  /\ hist.calls < MaxLimiterCalls
  /\ \E n \in 1..(bucket.burst + 1) :
       LET tk == [NewLimiterTask EXCEPT !.op = "acquire", !.n = n] IN
       /\ hist' = HistAfterArrival(hist, bucket, "acquire", n, now)
       /\ IF n > bucket.burst
          THEN /\ task' = [task EXCEPT ![t] = [tk EXCEPT !.result = ValueError]]
               /\ UNCHANGED <<bucket, bucket_lock, backoff>>
          ELSE EnterLock(t, tk)
  /\ UNCHANGED <<cb, now, cred, config>>

\* TokenBucketRateLimiter.try_acquire(n) is called
LimTryAcquire(t) ==
  /\ task[t].pc = "idle"
  /\ hist.calls < MaxLimiterCalls
  /\ \E n \in 1..bucket.burst :
       LET tk == [NewLimiterTask EXCEPT !.op = "try_acquire", !.n = n] IN
       /\ hist' = [HistAfterArrival(hist, bucket, "try_acquire", n, now) EXCEPT
                     !.try_blocked = IF bucket_lock = None THEN @ ELSE @ + 1]
       /\ EnterLock(t, tk)
  /\ UNCHANGED <<cb, now, cred, config>>

\* TokenBucketRateLimiter.reset() is called
LimReset(t) ==
  /\ task[t].pc = "idle"
  /\ hist.calls < MaxLimiterCalls
  /\ hist' = HistAfterArrival(hist, bucket, "reset", 0, now)
  /\ EnterLock(t, [NewLimiterTask EXCEPT !.op = "reset"])
  /\ UNCHANGED <<cb, now, cred, config>>

\* the lock was released and a task suspended on it takes it
LockAcquired(t) ==
  /\ task[t].pc = "lock_wait"
  /\ bucket_lock = None
  /\ UnderLock(t, [task[t] EXCEPT !.wait_start = now])
  /\ UNCHANGED <<cb, now, hist, cred, config>>

\* the sleep inside TokenBucketRateLimiter.acquire is over
LimBucketWake(t) ==
  /\ task[t].pc = "bucket_wait"
  /\ now >= task[t].wake
  /\ UnderLock(t, task[t])
  /\ UNCHANGED <<cb, now, hist, cred, config>>

\* the clock as the limiter's tasks read it
LimiterClock ==
  /\ now + LimiterTick <= LimiterTick * MaxLimiterTicks
  /\ now' = now + LimiterTick
  /\ UNCHANGED <<cb, task, hist, clientVars>>

\* ExponentialBackoffRateLimiter.acquire(n) is called (phase 1: the first
\* bucket.acquire; phase 2: the one after the backoff sleep)
BackoffAcquire(t) ==
  /\ task[t].pc = "idle"
  /\ hist.calls < MaxBackoffCalls
  /\ \E n \in {1, bucket.burst} :
       /\ hist' = HistAfterArrival(hist, bucket, "backoff_acquire", n, now)
       /\ EnterLock(t, [NewLimiterTask EXCEPT !.op = "acquire", !.n = n, !.phase = 1])
  /\ UNCHANGED <<cb, now, cred, config>>

\* the backoff sleep is over (lines 232-241): current_backoff grows and
\* bucket.acquire is called once more
BackoffSleepOver(t) ==
  /\ task[t].pc = "backoff_sleep"
  /\ now >= task[t].wake
  /\ LET bo == BackoffAfterReject(backoff)
         tk == [task[t] EXCEPT !.phase = 2]
     IN
     IF bucket_lock = None
     THEN LET r == BucketAcquirePass(bucket, tk.n, now, now) IN
          /\ bucket' = r.bucket
          /\ backoff' = bo
          /\ IF r.result = "granted"
             THEN /\ bucket_lock' = None
                  /\ task' = [task EXCEPT ![t] =
                       [Finished(tk) EXCEPT !.result = "ok", !.tokens_taken = tk.n]]
             ELSE IF r.result = "rejected"
             THEN /\ bucket_lock' = None
                  /\ task' = [task EXCEPT ![t] =
                       [Finished(tk) EXCEPT !.result = RateLimitError]]
             ELSE /\ bucket_lock' = t
                  /\ task' = [task EXCEPT ![t] =
                       [tk EXCEPT !.pc = "bucket_wait", !.wait_start = now, !.wake = r.wake]]
     ELSE /\ backoff' = bo
          /\ task' = [task EXCEPT ![t] = [tk EXCEPT !.pc = "lock_wait"]]
          /\ UNCHANGED <<bucket, bucket_lock>>
  /\ UNCHANGED <<cb, now, hist, cred, config>>

\* ExponentialBackoffRateLimiter.reset() is called (phase 3 marks it: the
\* backoff is cleared once the bucket was reset)
BackoffReset(t) ==
  /\ task[t].pc = "idle"
  /\ hist.calls < MaxBackoffCalls
  /\ hist' = HistAfterArrival(hist, bucket, "reset", 0, now)
  /\ EnterLock(t, [NewLimiterTask EXCEPT !.op = "reset", !.phase = 3])
  /\ UNCHANGED <<cb, now, cred, config>>

BackoffClock ==
  /\ now + BackoffTick <= BackoffTick * MaxBackoffTicks
  /\ now' = now + BackoffTick
  /\ UNCHANGED <<cb, task, hist, clientVars>>

\* TokenBucketRateLimiter(rate, burst, max_wait)
InitLimiter ==
  /\ \E rate \in 1..MaxRate, burst \in 1..MaxTokens, mw \in 0..MaxMaxWait :
       bucket = [NewBucket(rate, burst, 0) EXCEPT !.max_wait = Ms(mw)]
  /\ bucket_lock = None
  /\ backoff = NewBackoff(1, 1)
  /\ now = 0
  /\ task = [t \in LimiterTasks |-> NewLimiterTask]
  /\ hist = NewLimiterHist
  /\ cb = NewBreaker(1, 1, 1, 1)
  /\ cred = [cached_token |-> None, secret_token |-> None]
  /\ config = [requests_per_second |-> 1, max_retries |-> 0, retry_delay |-> 1]

NextLimiter ==
  \/ \E t \in LimiterTasks : LimAcquire(t)
  \/ \E t \in LimiterTasks : LimTryAcquire(t)
  \/ \E t \in LimiterTasks : LimReset(t)
  \/ \E t \in LimiterTasks : LockAcquired(t)
  \/ \E t \in LimiterTasks : LimBucketWake(t)
  \/ LimiterClock

SpecLimiter == InitLimiter /\ [][NextLimiter]_vars

\* ExponentialBackoffRateLimiter(rate, burst, initial_backoff, max_backoff)
InitBackoff ==
  /\ bucket = NewBucket(1, BackoffBurst, 0)
  /\ bucket_lock = None
  /\ \E mb \in 1..MaxMaxBackoff : backoff = NewBackoff(1, mb)
  /\ now = 0
  /\ task = [t \in LimiterTasks |-> NewLimiterTask]
  /\ hist = NewLimiterHist
  /\ cb = NewBreaker(1, 1, 1, 1)
  /\ cred = [cached_token |-> None, secret_token |-> None]
  /\ config = [requests_per_second |-> 1, max_retries |-> 0, retry_delay |-> 1]

NextBackoff ==
  \/ \E t \in LimiterTasks : BackoffAcquire(t)
  \/ \E t \in LimiterTasks : BackoffReset(t)
  \/ \E t \in LimiterTasks : LockAcquired(t)
  \/ \E t \in LimiterTasks : LimBucketWake(t)
  \/ \E t \in LimiterTasks : BackoffSleepOver(t)
  \/ BackoffClock

SpecBackoff == InitBackoff /\ [][NextBackoff]_vars

\* --------------------------------------------------------- request signer
\* RequestSigner (utils/request_signer.py).  `config` is the signer
\* (signing_key, timestamp_window), `now` is int(time.time()) in seconds, and
\* `task` holds the last request signed and the last verification made.
CLOCK_SKEW_TOLERANCE_SECONDS == 60
MaxWindow == 3
MaxSignerTime == 5
FutureOffsets == {0, 60, 61}
Methods == {"get", "POST"}
Urls == {"https://api.example/a", "https://api.example/b"}
EmptyBody == "{}"
Bodies == {None, EmptyBody, "{\"a\": 1}"}

\* method.upper()
Upper(m) == IF m = "get" THEN "GET" ELSE IF m = "post" THEN "POST" ELSE m

\* line 87: json.dumps(body, sort_keys=True) if body else ''
BodyStr(body) == IF body = None \/ body = EmptyBody THEN "" ELSE body

\* HMAC-SHA256 under a key, taken as collision-free: the digest is told by the
\* key and the message
Hmac(key, message) == <<key, message>>

\* RequestSigner.sign_request with the timestamp resolved (lines 86-107)
SignRequest(signer, method, url, body, timestamp) ==
  LET message == <<Upper(method), url, BodyStr(body), timestamp>> IN
  [ signature |-> Hmac(signer.signing_key, message),
    timestamp |-> timestamp,
    algorithm |-> "HMAC-SHA256" ]

VerifySignature_NoFutureCheck(signer, method, url, signature, timestamp, body, clock) ==
  LET age == clock - timestamp IN
  IF age > signer.timestamp_window THEN FALSE
  ELSE signature = SignRequest(signer, method, url, body, timestamp).signature

\* RequestSigner.verify_signature (lines 133-151)
VerifySignature(signer, method, url, signature, timestamp, body, clock) ==
  LET age == clock - timestamp IN
  IF age > signer.timestamp_window THEN FALSE
  ELSE IF age < -CLOCK_SKEW_TOLERANCE_SECONDS THEN FALSE
  ELSE signature = SignRequest(signer, method, url, body, timestamp).signature

NoRequest == [method |-> "", url |-> "", body |-> None, timestamp |-> 0]

\* sign_request is called; without a timestamp it takes int(time.time())
\* (lines 83-84), otherwise the caller's, here the present or a later time
Sign ==
  /\ \E m \in Methods, u \in Urls, b \in Bodies, given \in BOOLEAN, d \in FutureOffsets :
       LET t == IF given THEN now + d ELSE now
           req == [method |-> m, url |-> u, body |-> b, timestamp |-> t]
       IN task' = [ signed |-> req,
                    headers |-> SignRequest(config, m, u, b, t),
                    verified |-> [done |-> FALSE, request |-> NoRequest,
                                  at |-> 0, result |-> FALSE] ]
  /\ UNCHANGED <<cb, now, hist, clientVars>>

\* verify_signature is called with the signature of the signed request and a
\* request that is the signed one or differs from it in one part
Verify ==
  /\ task.headers.algorithm # ""
  /\ \E m \in {task.signed.method} \cup Methods,
        u \in {task.signed.url} \cup Urls,
        b \in {task.signed.body} \cup Bodies,
        t \in {task.signed.timestamp, task.signed.timestamp + 1} :
       LET req == [method |-> m, url |-> u, body |-> b, timestamp |-> t] IN
       /\ Cardinality({f \in {"method", "url", "body", "timestamp"} :
                         req[f] # task.signed[f]}) <= 1
       /\ task' = [task EXCEPT !.verified =
            [ done |-> TRUE, request |-> req, at |-> now,
              result |-> VerifySignature(config, m, u, task.headers.signature, t, b, now) ]]
  /\ UNCHANGED <<cb, now, hist, clientVars>>

SignerClock ==
  /\ now < MaxSignerTime
  /\ now' = now + 1
  /\ UNCHANGED <<cb, task, hist, clientVars>>

\* RequestSigner.__init__
InitSigner ==
  /\ \E w \in 1..MaxWindow :
       config = [signing_key |-> "k1", timestamp_window |-> w]
  /\ now = 0
  /\ task = [ signed |-> NoRequest,
              headers |-> [signature |-> <<>>, timestamp |-> 0, algorithm |-> ""],
              verified |-> [done |-> FALSE, request |-> NoRequest, at |-> 0, result |-> FALSE] ]
  /\ hist = NewHist
  /\ cb = NewBreaker(1, 1, 1, 1)
  /\ bucket = NewBucket(1, 1, 0)
  /\ bucket_lock = None
  /\ backoff = NewBackoff(1, 1)
  /\ cred = [cached_token |-> None, secret_token |-> None]

NextSigner ==
  \/ Sign
  \/ Verify
  \/ SignerClock

SpecSigner == InitSigner /\ [][NextSigner]_vars

\* ------------------------------------------- the credential manager alone
\* Calls on one SecureCredentialManager: get_api_token, rotate_token(new),
\* revoke_token (as SafetyCultureConfig.revoke_credentials calls it).  `cred`
\* is the manager's cache and what get_secret('SAFETYCULTURE_API_TOKEN')
\* yields; `task` is the last call made; `hist` the history of calls.
MaxCredCalls == 4

\* values passed to rotate_token: strings (one empty), a number, None
TokenInputs ==
  { [kind |-> "str", text |-> "tok-a"], [kind |-> "str", text |-> "tok-b"],
    [kind |-> "str", text |-> ""], [kind |-> "int", text |-> "123"],
    [kind |-> "NoneType", text |-> ""] }

NoTokenInput == [kind |-> "NoneType", text |-> ""]

\* Python truth of a value passed as token: empty strings and None are falsy
Truthy(x) == x.kind # "NoneType" /\ x.text # "" /\ x.text # "0"

RotateTokenResult_NoValidation(c, new) ==
  [exc |-> NoError, cred |-> [c EXCEPT !.cached_token = new.text]]

\* SecureCredentialManager.rotate_token (lines 80-83)
RotateTokenResult(c, new) ==
  IF ~Truthy(new) \/ new.kind # "str"
  THEN [exc |-> ValidationError, cred |-> c]
  ELSE [exc |-> NoError, cred |-> [c EXCEPT !.cached_token = new.text]]

\* SecureCredentialManager.revoke_token (lines 96-100)
RevokeTokenResult(c) ==
  IF c.cached_token # None THEN [c EXCEPT !.cached_token = None] ELSE c

\* History of the calls on the manager:
\*   calls     calls made
\*   revoked   revoke_token was called and no rotate_token has succeeded since
\*   superseded   the token of the secret source that a successful
\*                rotate_token replaced in the cache (None: none so far)
NewCredHist == [calls |-> 0, revoked |-> FALSE, superseded |-> None]

NoCall ==
  [op |-> "none", arg |-> NoTokenInput, result |-> NoError, before |-> None,
   prev |-> "none"]

CredGet ==
  /\ hist.calls < MaxCredCalls
  /\ LET g == GetApiToken(cred) IN
     /\ cred' = g.cred
     /\ task' = [op |-> "get_api_token", arg |-> NoTokenInput,
                 result |-> IF g.token = None THEN CredentialError ELSE g.token,
                 before |-> cred.cached_token, prev |-> task.op]
  /\ hist' = [hist EXCEPT !.calls = @ + 1]
  /\ UNCHANGED <<cb, now, bucket, bucket_lock, backoff, config>>

CredRotate ==
  /\ hist.calls < MaxCredCalls
  /\ \E new \in TokenInputs :
       LET r == RotateTokenResult(cred, new) IN
       /\ cred' = r.cred
       /\ task' = [op |-> "rotate_token", arg |-> new,
                   result |-> IF r.exc = NoError THEN "ok" ELSE r.exc,
                   before |-> cred.cached_token, prev |-> task.op]
       /\ hist' = [hist EXCEPT !.calls = @ + 1,
                               !.revoked = IF r.exc = NoError THEN FALSE ELSE @,
                               !.superseded =
                                  IF /\ r.exc = NoError
                                     /\ cred.secret_token # None
                                     /\ cred.cached_token = cred.secret_token
                                  THEN cred.secret_token
                                  ELSE @]
  /\ UNCHANGED <<cb, now, bucket, bucket_lock, backoff, config>>

CredRevoke ==
  /\ hist.calls < MaxCredCalls
  /\ cred' = RevokeTokenResult(cred)
  /\ task' = [op |-> "revoke_token", arg |-> NoTokenInput, result |-> "ok",
              before |-> cred.cached_token, prev |-> task.op]
  /\ hist' = [hist EXCEPT !.calls = @ + 1, !.revoked = TRUE]
  /\ UNCHANGED <<cb, now, bucket, bucket_lock, backoff, config>>

\* SecureCredentialManager.__init__, with or without the environment variable
InitCred ==
  /\ \E st \in {None, "env-token"} : cred = [cached_token |-> None, secret_token |-> st]
  /\ task = NoCall
  /\ hist = NewCredHist
  /\ now = 0
  /\ cb = NewBreaker(1, 1, 1, 1)
  /\ bucket = NewBucket(1, 1, 0)
  /\ bucket_lock = None
  /\ backoff = NewBackoff(1, 1)
  /\ config = [requests_per_second |-> 1, max_retries |-> 0, retry_delay |-> 1]

NextCred ==
  \/ CredGet
  \/ CredRotate
  \/ CredRevoke

SpecCred == InitCred /\ [][NextCred]_vars

\* ------------------------------------------------- the asset repository
\* Concurrent AssetRepository.register_asset calls on one initialised
\* database.  `config` is the database: the number of rows of
\* asset_inspections per (asset_id, month_year) and the connection holding
\* SQLite's write lock; `task` is each caller's position in register_asset.
\* A connection whose INSERT finds the write lock taken waits in SQLite's busy
\* handler; the holder is taken to commit or close within the busy timeout.
RepoTasks == {"t1", "t2", "t3"}
MaxRepoCalls == 4

\* (asset_id, month_year) pairs
AssetKeys == {<<"asset-1", "2025-01">>, <<"asset-1", "2025-02">>}

NewDatabase == [rows |-> [k \in AssetKeys |-> 0], writer |-> None]

NewRepoTask == [pc |-> "idle", key |-> <<"asset-1", "2025-01">>, result |-> None]

\* History of the register_asset calls, per pair:
\*   started / returned_true / returned_false   calls made and their results
\*   overlapped   a call began while another for the same pair was in flight
NewRepoHist ==
  [calls |-> 0,
   started |-> [k \in AssetKeys |-> 0],
   returned_true |-> [k \in AssetKeys |-> 0],
   returned_false |-> [k \in AssetKeys |-> 0],
   overlapped |-> [k \in AssetKeys |-> FALSE]]

UniqueViolated_Never(rows, key) == FALSE

\* UNIQUE(asset_id, month_year) of asset_inspections
UniqueViolated(rows, key) == rows[key] > 0

\* register_asset is called and its connection opened
RegisterAsset(t) ==
  /\ task[t].pc = "idle"
  /\ hist.calls < MaxRepoCalls
  /\ \E k \in AssetKeys :
       /\ task' = [task EXCEPT ![t] = [pc |-> "connected", key |-> k, result |-> None]]
       /\ hist' = [hist EXCEPT
                     !.calls = @ + 1,
                     !.started[k] = @ + 1,
                     !.overlapped[k] =
                        @ \/ \E u \in RepoTasks \ {t} :
                               task[u].pc \in {"connected", "inserted", "closing"}
                               /\ task[u].key = k]
  /\ UNCHANGED <<cb, now, bucket, bucket_lock, backoff, cred, config>>

\* db.execute(INSERT ...): takes the write lock, then the row goes in or the
\* constraint raises IntegrityError; the transaction stays open either way
Insert(t) ==
  /\ task[t].pc = "connected"
  /\ config.writer = None
  /\ IF UniqueViolated(config.rows, task[t].key)
     THEN /\ task' = [task EXCEPT ![t].pc = "closing", ![t].result = "False"]
          /\ config' = [config EXCEPT !.writer = t]
     ELSE /\ task' = [task EXCEPT ![t].pc = "inserted"]
          /\ config' = [config EXCEPT !.writer = t,
                                      !.rows[task[t].key] = @ + 1]
  /\ UNCHANGED <<cb, now, hist, bucket, bucket_lock, backoff, cred>>

\* db.commit()
Commit(t) ==
  /\ task[t].pc = "inserted"
  /\ task' = [task EXCEPT ![t].pc = "closing", ![t].result = "True"]
  /\ config' = [config EXCEPT !.writer = None]
  /\ UNCHANGED <<cb, now, hist, bucket, bucket_lock, backoff, cred>>

\* the connection closes on leaving `async with`, and the call returns
CloseAndReturn(t) ==
  /\ task[t].pc = "closing"
  /\ task' = [task EXCEPT ![t].pc = "idle"]
  /\ config' = [config EXCEPT !.writer = IF @ = t THEN None ELSE @]
  /\ hist' = IF task[t].result = "True"
             THEN [hist EXCEPT !.returned_true[task[t].key] = @ + 1]
             ELSE [hist EXCEPT !.returned_false[task[t].key] = @ + 1]
  /\ UNCHANGED <<cb, now, bucket, bucket_lock, backoff, cred>>

InitRepo ==
  /\ config = NewDatabase
  /\ task = [t \in RepoTasks |-> NewRepoTask]
  /\ hist = NewRepoHist
  /\ now = 0
  /\ cb = NewBreaker(1, 1, 1, 1)
  /\ bucket = NewBucket(1, 1, 0)
  /\ bucket_lock = None
  /\ backoff = NewBackoff(1, 1)
  /\ cred = [cached_token |-> None, secret_token |-> None]

NextRepo ==
  \/ \E t \in RepoTasks : RegisterAsset(t)
  \/ \E t \in RepoTasks : Insert(t)
  \/ \E t \in RepoTasks : Commit(t)
  \/ \E t \in RepoTasks : CloseAndReturn(t)

SpecRepo == InitRepo /\ [][NextRepo]_vars

\* ------------------------------------------------ cancellation of a caller
\* The client's requests with the caller's task cancelled at one of its
\* suspension points: the sleep inside TokenBucketRateLimiter.acquire (lock
\* held), the backoff sleep, the HTTP call, the retry sleep.
CancelledError == "asyncio.CancelledError"

BreakerAfterCancel_AsFailure(b, clock) == RecordFailure(b, clock)

\* CircuitBreaker.call lines 228-244: asyncio.CancelledError is a
\* BaseException, `except Exception` lets it pass and nothing is recorded
BreakerAfterCancel(b, clock) == b

\* leaving `async with self._lock` (rate_limiter.py line 99) on an exception
LockAfterCancel(lock, t) == IF lock = t THEN None ELSE lock

Cancel(t) ==
  /\ task[t].pc \in {"bucket_wait", "backoff_sleep", "http", "retry_sleep"}
  /\ task' = [task EXCEPT ![t] = [@ EXCEPT !.pc = "idle", !.outcome = CancelledError,
                                          !.wake = 0, !.wait_start = 0]]
  /\ bucket_lock' = LockAfterCancel(bucket_lock, t)
  /\ cb' = BreakerAfterCancel(cb, now)
  /\ UNCHANGED <<now, hist, bucket, backoff, cred, config>>

NextCancel ==
  \/ NextClient
  \/ \E t \in ClientTasks : Cancel(t)

\* a client with a token configured and one retry allowed
InitCancel ==
  /\ InitClient
  /\ config.max_retries = 1
  /\ cred.secret_token = "env-token"

SpecCancel == InitCancel /\ [][NextCancel]_vars

\* ------------------------------------------- headers of the HTTP attempts
\* The part of _make_request_internal that builds the headers of each HTTP
\* attempt (lines 232-253), with the retries of lines 315-338 and the token
\* rotated or revoked between attempts.  `config` is the client (max_retries
\* and its request_signer), `task` the request in progress with the headers
\* of its attempt, `hist` the count of requests and attempts.
REQUEST_SIGNING_WINDOW_SECONDS == 300
MaxHeaderRequests == 2
MaxHeaderTime == 2

\* values of SAFETYCULTURE_SIGNING_KEY: unset, empty, set
SigningKeys == {None, "", "test_signing_key"}

\* self.request_signer when no signer was made
NoSigner == [signing_key |-> "", timestamp_window |-> 0]

\* SafetyCultureAPIClient.__init__ lines 110-116
MakeSigner(signing_key) ==
  IF signing_key # None /\ signing_key # ""
  THEN [signing_key |-> signing_key, timestamp_window |-> REQUEST_SIGNING_WINDOW_SECONDS]
  ELSE NoSigner

SigningEnabled_Never(signer) == FALSE

\* line 239: if self.request_signer
SigningEnabled(signer) == signer # NoSigner

\* SecureHeaderManager.get_secure_headers(api_token), no extra headers; the
\* UUID is the n-th drawn, the time is the clock's ISO text
GetSecureHeaders(api_token, n, clock) ==
  ("Authorization" :> <<"Bearer", api_token>>) @@
  ("Content-Type" :> "application/json") @@
  ("User-Agent" :> "ADK-SafetyCulture/1.0") @@
  ("X-Request-ID" :> <<"uuid4", n>>) @@
  ("X-Request-Time" :> <<"isoformat", clock>>)

\* the dictionary returned by sign_request (request_signer.py lines 103-107)
SigningHeaders(signer, method, url, body, clock) ==
  LET sg == SignRequest(signer, method, url, body, clock) IN
  ("X-Signature" :> sg.signature) @@
  ("X-Timestamp" :> <<"str", sg.timestamp>>) @@
  ("X-Signature-Algorithm" :> sg.algorithm)

\* lines 236-246: the headers handed to session.request
AttemptHeaders(client, api_token, method, url, body, n, clock) ==
  IF SigningEnabled(client.request_signer)
  THEN SigningHeaders(client.request_signer, method, url, body, clock) @@
       GetSecureHeaders(api_token, n, clock)
  ELSE GetSecureHeaders(api_token, n, clock)

NoHeaders == ("User-Agent" :> "")

NewHeaderTask ==
  [pc |-> "idle", method |-> "get", url |-> "", body |-> None, retry_count |-> 0,
   token |-> None, headers |-> NoHeaders, outcome |-> NoError]

NewHeaderHist == [requests |-> 0, attempts |-> 0, retries |-> 0]

\* a request is made
StartRequest(t) ==
  /\ task[t].pc = "idle"
  /\ hist.requests < MaxHeaderRequests
  /\ \E m \in Methods, u \in Urls, b \in Bodies :
       task' = [task EXCEPT ![t] =
                  [NewHeaderTask EXCEPT !.pc = "in_func", !.method = m, !.url = u, !.body = b]]
  /\ hist' = [hist EXCEPT !.requests = @ + 1]
  /\ UNCHANGED <<cb, now, bucket, bucket_lock, backoff, cred, config>>

\* lines 232-286: the token is read, the headers are built and the attempt
\* is sent, or get_api_token raises and nothing is sent
SendAttempt(t) ==
  /\ task[t].pc = "in_func"
  /\ LET g == GetApiToken(cred) IN
     /\ cred' = g.cred
     /\ IF g.token = None
        THEN /\ task' = [task EXCEPT ![t] = [@ EXCEPT !.pc = "idle", !.outcome = CredentialError]]
             /\ hist' = hist
        ELSE /\ task' = [task EXCEPT ![t] =
                  [@ EXCEPT !.pc = "http", !.token = g.token,
                            !.headers = AttemptHeaders(config, g.token, task[t].method,
                                                       task[t].url, task[t].body,
                                                       hist.attempts + 1, now)]]
             /\ hist' = [hist EXCEPT !.attempts = @ + 1,
                                     !.retries = IF task[t].retry_count > 0 THEN @ + 1 ELSE @]
  /\ UNCHANGED <<cb, now, bucket, bucket_lock, backoff, config>>

\* the attempt is answered: success, or an error that is retried or raised
AttemptAnswered(t) ==
  /\ task[t].pc = "http"
  /\ \E ok \in BOOLEAN :
       task' = [task EXCEPT ![t] =
                  IF ok THEN [@ EXCEPT !.pc = "idle", !.outcome = "ok"]
                  ELSE IF CanRetry(@.retry_count, config)
                  THEN [@ EXCEPT !.pc = "retry_sleep"]
                  ELSE [@ EXCEPT !.pc = "idle", !.outcome = APIError]]
  /\ UNCHANGED <<cb, now, hist, bucket, bucket_lock, backoff, cred, config>>

\* the retry sleep is over: _make_request_internal runs again
RetryAttempt(t) ==
  /\ task[t].pc = "retry_sleep"
  /\ task' = [task EXCEPT ![t] = [@ EXCEPT !.pc = "in_func", !.retry_count = @ + 1]]
  /\ UNCHANGED <<cb, now, hist, bucket, bucket_lock, backoff, cred, config>>

HeaderClock ==
  /\ now < MaxHeaderTime
  /\ now' = now + 1
  /\ UNCHANGED <<cb, task, hist, clientVars>>

InitHeaders ==
  /\ \E mr \in 0..MaxMaxRetries, k \in SigningKeys :
       config = [max_retries |-> mr, request_signer |-> MakeSigner(k)]
  /\ \E st \in {None, "env-token"} : cred = [cached_token |-> None, secret_token |-> st]
  /\ task = [t \in ClientTasks |-> NewHeaderTask]
  /\ hist = NewHeaderHist
  /\ now = 0
  /\ cb = NewBreaker(1, 1, 1, 1)
  /\ bucket = NewBucket(1, 1, 0)
  /\ bucket_lock = None
  /\ backoff = NewBackoff(1, 1)

NextHeaders ==
  \/ \E t \in ClientTasks : StartRequest(t)
  \/ \E t \in ClientTasks : SendAttempt(t)
  \/ \E t \in ClientTasks : AttemptAnswered(t)
  \/ \E t \in ClientTasks : RetryAttempt(t)
  \/ \E new \in {"tok-a", "tok-b"} : RotateToken(new)
  \/ RevokeToken
  \/ HeaderClock

SpecHeaders == InitHeaders /\ [][NextHeaders]_vars

\* ------------------------------------------------------ the input validator
\* InputValidator.validate_params applied to mappings of parameters.  A Python
\* value is a record
\*   kind   int, float, bool, NoneType, str or list
\*   n      the number (int, bool), the number in tenths (float), the length
\*          (str, list)
\*   text   for a str: its content once control characters and surrounding
\*          whitespace are removed
\*   cls    for a str: what that content is made of -
\*          word   letters, digits, underscores       digits  a decimal number
\*          dashword  '-' followed by a word          csv     words and commas
\*          other  any other printable text           empty   nothing
\*   pad    for a str: count of leading and trailing whitespace characters
\*   ctrl   for a str: count of control characters
\*   items  for a list: its elements
MAX_LIMIT == 1000
MAX_OFFSET == 100000
MAX_QUERY_LENGTH == 500
MAX_STRING_LENGTH == 1000
MaxParams == 2

TypeError == "TypeError"

ALLOWED_PARAMS ==
  {"query", "limit", "offset", "fields", "field", "sort", "filter", "page",
   "per_page", "order", "include", "exclude", "archived", "modified_after",
   "template", "asset_type", "site_id", "name", "email"}

PyInt(k) ==
  [kind |-> "int", n |-> k, text |-> "", cls |-> "", pad |-> 0, ctrl |-> 0, items |-> <<>>]
PyFloat(tenths) ==
  [kind |-> "float", n |-> tenths, text |-> "", cls |-> "", pad |-> 0, ctrl |-> 0, items |-> <<>>]
PyBool(b) ==
  [kind |-> "bool", n |-> IF b THEN 1 ELSE 0, text |-> "", cls |-> "", pad |-> 0,
   ctrl |-> 0, items |-> <<>>]
PyNone ==
  [kind |-> "NoneType", n |-> 0, text |-> "", cls |-> "", pad |-> 0, ctrl |-> 0, items |-> <<>>]
PyStr(text, cls, len, pad, ctrl) ==
  [kind |-> "str", n |-> len, text |-> text, cls |-> cls, pad |-> pad, ctrl |-> ctrl,
   items |-> <<>>]
PyList(items) ==
  [kind |-> "list", n |-> Len(items), text |-> "", cls |-> "", pad |-> 0, ctrl |-> 0,
   items |-> items]

\* the values the parameters take
LongWord == PyStr("xxx...", "word", MAX_STRING_LENGTH + 1, 0, 0)
ParamValues ==
  { PyInt(0), PyInt(1), PyInt(1000), PyInt(1001), PyInt(-1), PyInt(100001),
    PyFloat(10005), PyFloat(-5), PyBool(TRUE), PyNone,
    PyStr("test", "word", 4, 0, 0), PyStr("test", "word", 6, 2, 0),
    PyStr("test", "word", 5, 0, 1), PyStr("5", "digits", 1, 0, 0),
    PyStr("abc;--", "other", 6, 0, 0), PyStr("-name", "dashword", 5, 0, 0),
    PyStr("id,name", "csv", 7, 0, 0), PyStr("True", "word", 4, 0, 0),
    PyStr("xx...", "word", MAX_QUERY_LENGTH + 1, 0, 0), LongWord,
    PyList(<<PyStr("test", "word", 4, 0, 0)>>), PyList(<<LongWord>>),
    PyList(<<PyNone>>), PyList(<<>>) }

\* the keys the mappings use: one per branch of validate_params and one that
\* is not allowed
ParamKeys ==
  {"query", "limit", "offset", "fields", "sort", "archived", "asset_type",
   "site_id", "email", "name", "evil_param"}

\* the decimal number a string of digits reads as
IntOfDigits(text) == IF text = "5" THEN 5 ELSE 0

\* number of characters of str(k)
DigitLen(k) ==
  LET a == IF k < 0 THEN -k ELSE k
      d == IF a < 10 THEN 1 ELSE IF a < 100 THEN 2 ELSE IF a < 1000 THEN 3
           ELSE IF a < 10000 THEN 4 ELSE IF a < 100000 THEN 5 ELSE 6
  IN IF k < 0 THEN d + 1 ELSE d

\* int(value): the integer, or the exception raised
ToInt(v) ==
  IF v.kind \in {"int", "bool"} THEN [exc |-> NoError, n |-> v.n]
  ELSE IF v.kind = "float"
  THEN [exc |-> NoError, n |-> IF v.n >= 0 THEN v.n \div 10 ELSE -((-v.n) \div 10)]
  ELSE IF v.kind = "str"
  THEN IF v.cls = "digits" /\ v.ctrl = 0
       THEN [exc |-> NoError, n |-> IntOfDigits(v.text)]
       ELSE [exc |-> ValueError, n |-> 0]
  ELSE [exc |-> TypeError, n |-> 0]

\* number of characters the elements take in the repr of a list: each its
\* own length, quotes and separator
RECURSIVE ReprLen(_)
ReprLen(items) ==
  IF items = <<>> THEN 0 ELSE Head(items).n + 4 + ReprLen(Tail(items))

\* str(value)
ToStr(v) ==
  IF v.kind = "str" THEN v
  ELSE IF v.kind = "int"
  THEN PyStr("<decimal>", IF v.n < 0 THEN "dashword" ELSE "digits", DigitLen(v.n), 0, 0)
  ELSE IF v.kind = "float"
  THEN PyStr("<decimal>.<digit>", "other", DigitLen(ToInt(v).n) + 2, 0, 0)
  ELSE IF v.kind = "bool"
  THEN IF v.n = 1 THEN PyStr("True", "word", 4, 0, 0) ELSE PyStr("False", "word", 5, 0, 0)
  ELSE IF v.kind = "NoneType" THEN PyStr("None", "word", 4, 0, 0)
  ELSE PyStr("<repr of list>", "other", 2 + ReprLen(v.items), 0, 0)

\* ''.join(printable or space characters).strip()
StripPrintable(sv) ==
  [sv EXCEPT !.n = sv.n - sv.pad - sv.ctrl, !.pad = 0, !.ctrl = 0]

\* FIELD_NAME_PATTERN.match on a string
MatchesFieldName(sv) == sv.cls \in {"word", "digits"} /\ sv.ctrl = 0 /\ sv.pad = 0

Accepted(v) == [exc |-> NoError, value |-> v]
Refused(e) == [exc |-> e, value |-> PyNone]

\* _validate_query
ValidateQuery(v) ==
  IF v.kind # "str" THEN Refused(ValidationError)
  ELSE IF v.n > MAX_QUERY_LENGTH THEN Refused(ValidationError)
  ELSE Accepted(StripPrintable(v))

\* _validate_limit and _validate_offset, with their lowest and highest value
ValidateRange(v, lo, hi) ==
  LET c == ToInt(v) IN
  IF c.exc # NoError THEN Refused(ValidationError)
  ELSE IF c.n < lo \/ c.n > hi THEN Refused(ValidationError)
  ELSE Accepted(PyInt(c.n))

ValidateLimit(v) == ValidateRange(v, 1, MAX_LIMIT)
ValidateOffset(v) == ValidateRange(v, 0, MAX_OFFSET)

\* str(x).strip()
Strip(sv) == [sv EXCEPT !.n = sv.n - sv.pad, !.pad = 0]

\* _validate_fields
ValidateFields(v) ==
  IF v.kind = "list"
  THEN IF \E i \in 1..Len(v.items) : ~MatchesFieldName(Strip(ToStr(v.items[i])))
       THEN Refused(ValidationError)
       ELSE IF v.items = <<>> THEN Refused(ValidationError)
       ELSE Accepted(PyList([i \in 1..Len(v.items) |-> Strip(ToStr(v.items[i]))]))
  ELSE IF v.kind = "str"
  THEN IF v.n = v.pad + v.ctrl THEN Refused(ValidationError)
       ELSE IF v.cls \in {"word", "digits", "csv"} /\ v.ctrl = 0
       THEN Accepted(Strip(v))
       ELSE Refused(ValidationError)
  ELSE IF MatchesFieldName(Strip(ToStr(v))) THEN Accepted(Strip(ToStr(v)))
       ELSE Refused(ValidationError)

\* _validate_sort
ValidateSort(v) ==
  IF v.kind # "str" THEN Refused(ValidationError)
  ELSE IF v.cls \in {"word", "digits", "dashword"} /\ v.ctrl = 0
  THEN Accepted(Strip(v))
  ELSE Refused(ValidationError)

\* _validate_boolean
ValidateBoolean(v) ==
  IF v.kind = "bool"
  THEN Accepted(IF v.n = 1 THEN PyStr("true", "word", 4, 0, 0)
                ELSE PyStr("false", "word", 5, 0, 0))
  ELSE IF v.kind = "str" /\ v.text \in {"True", "true", "False", "false"}
          /\ v.pad = 0 /\ v.ctrl = 0
  THEN Accepted(IF v.text \in {"True", "true"} THEN PyStr("true", "word", 4, 0, 0)
                ELSE PyStr("false", "word", 5, 0, 0))
  ELSE Refused(ValidationError)

\* _sanitize_string
SanitizeString(v) ==
  LET sv == ToStr(v) IN
  IF sv.n > MAX_STRING_LENGTH THEN Refused(ValidationError)
  ELSE Accepted(StripPrintable(sv))

\* the body of the loop of validate_params (lines 91-115) for one item
ValidateParam(key, v) ==
  IF key \notin ALLOWED_PARAMS THEN Refused(ValidationError)
  ELSE IF key = "query" THEN ValidateQuery(v)
  ELSE IF key = "limit" THEN ValidateLimit(v)
  ELSE IF key = "offset" THEN ValidateOffset(v)
  ELSE IF key \in {"fields", "field"} THEN ValidateFields(v)
  ELSE IF key \in {"sort", "order"} THEN ValidateSort(v)
  ELSE IF key = "archived" THEN ValidateBoolean(v)
  ELSE IF key \in {"asset_type", "site_id", "email"}
  THEN Accepted(IF v.kind = "list" THEN v ELSE PyList(<<v>>))
  ELSE SanitizeString(v)

NoParams == [k \in {} |-> PyNone]

\* validate_params on a mapping: the first item refused raises, and every
\* refusal raises the same exception; otherwise every item is in the result
ValidateParams(params) ==
  IF \E k \in DOMAIN params : ValidateParam(k, params[k]).exc # NoError
  THEN [exc |-> ValidationError, validated |-> NoParams]
  ELSE [exc |-> NoError,
        validated |-> [k \in DOMAIN params |-> ValidateParam(k, params[k]).value]]

ParamMappings ==
  UNION { [ks -> ParamValues] :
            ks \in {s \in SUBSET ParamKeys : Cardinality(s) \in 1..MaxParams} }

NoValidation == [done |-> FALSE, params |-> NoParams, after |-> NoParams,
                 exc |-> NoError, validated |-> NoParams]

\* validate_params is called; `after` is the caller's mapping after the call
ValidateParamsCall ==
  /\ ~task.done
  /\ \E params \in ParamMappings :
       LET r == ValidateParams(params) IN
       task' = [done |-> TRUE, params |-> params, after |-> params,
                exc |-> r.exc, validated |-> r.validated]
  /\ UNCHANGED <<cb, now, hist, bucket, bucket_lock, backoff, cred, config>>

\* the caller has the result or the exception, and may call again
ValidateParamsReturn ==
  /\ task.done
  /\ task' = NoValidation
  /\ UNCHANGED <<cb, now, hist, bucket, bucket_lock, backoff, cred, config>>

InitValidator ==
  /\ task = NoValidation
  /\ hist = 0
  /\ now = 0
  /\ cb = NewBreaker(1, 1, 1, 1)
  /\ bucket = NewBucket(1, 1, 0)
  /\ bucket_lock = None
  /\ backoff = NewBackoff(1, 1)
  /\ cred = [cached_token |-> None, secret_token |-> None]
  /\ config = [requests_per_second |-> 1, max_retries |-> 0, retry_delay |-> 1]

NextValidator ==
  \/ ValidateParamsCall
  \/ ValidateParamsReturn

SpecValidator == InitValidator /\ [][NextValidator]_vars

\* ------------------------------------------------- sanitising for the log
\* SecureHeaderManager.sanitize_for_logging applied to nested data.  A datum
\* is a record
\*   type     dict, list, tuple, str or int
\*   keys     for a dict: its keys, in order
\*   vals     for a dict: the value of each key; for a list or tuple: its items
\*   text     for a str: its content
\*   pattern  for a str: which of SENSITIVE_PATTERNS its content matches -
\*            bearer, api_key, token - or none
MaxDepth == 2

REDACTED == "[REDACTED]"

SENSITIVE_HEADERS == {"authorization", "x-api-key", "api-token"}

LogStr(text, pattern) ==
  [type |-> "str", keys |-> <<>>, vals |-> <<>>, text |-> text, pattern |-> pattern]
LogInt ==
  [type |-> "int", keys |-> <<>>, vals |-> <<>>, text |-> "42", pattern |-> "none"]
LogDict(keys, vals) ==
  [type |-> "dict", keys |-> keys, vals |-> vals, text |-> "", pattern |-> "none"]
LogList(items) ==
  [type |-> "list", keys |-> <<>>, vals |-> items, text |-> "", pattern |-> "none"]
LogTuple(items) ==
  [type |-> "tuple", keys |-> <<>>, vals |-> items, text |-> "", pattern |-> "none"]

\* keys of the mappings that are logged
LogKeys ==
  {"user", "authorization", "Authorization", "x-api-key", "api-token", "token", "api-key"}

\* str.lower() on those keys
Lower(k) == IF k = "Authorization" THEN "authorization" ELSE k

LogLeaves ==
  { LogStr("john", "none"), LogStr("hidden789", "none"),
    LogStr("authorization: Bearer secret123", "bearer"),
    LogStr("api_key=apikey456", "api_key"),
    LogStr("token=hidden789", "token"), LogInt }

\* the data of test_sanitize_nested_dict_structure
NestedTestData ==
  LogDict(<<"user", "auth", "payload">>,
          << LogStr("john", "none"),
             LogDict(<<"authorization", "x-api-key">>,
                     <<LogStr("Bearer secret123", "none"), LogStr("apikey456", "none")>>),
             LogDict(<<"message", "token">>,
                     <<LogStr("Hello", "none"), LogStr("hidden789", "none")>>) >>)

\* data nested to the given depth
RECURSIVE LogDataOfDepth(_)
LogDataOfDepth(d) ==
  IF d = 0 THEN LogLeaves
  ELSE LET inner == LogDataOfDepth(d - 1) IN
       inner
       \cup { LogDict(<<k>>, <<v>>) : k \in LogKeys, v \in inner }
       \cup { LogList(<<v>>) : v \in inner }
       \cup { LogTuple(<<v, LogStr("john", "none")>>) : v \in inner }

LogData == LogDataOfDepth(MaxDepth) \cup {NestedTestData}

\* the three re.sub calls of lines 135-141 on a string
ScrubString(sv) ==
  IF sv.pattern = "bearer" THEN [sv EXCEPT !.text = "authorization: [REDACTED]"]
  ELSE IF sv.pattern = "api_key" THEN [sv EXCEPT !.text = "api_key=[REDACTED]"]
  ELSE IF sv.pattern = "token" THEN [sv EXCEPT !.text = "token=[REDACTED]"]
  ELSE sv

\* SecureHeaderManager.sanitize_for_logging
RECURSIVE SanitizeForLogging(_)
SanitizeForLogging(data) ==
  IF data.type = "dict"
  THEN [data EXCEPT !.vals =
          [i \in 1..Len(data.keys) |->
             IF Lower(data.keys[i]) \in SENSITIVE_HEADERS
             THEN LogStr(REDACTED, "none")
             ELSE SanitizeForLogging(data.vals[i])]]
  ELSE IF data.type \in {"list", "tuple"}
  THEN LogList([i \in 1..Len(data.vals) |-> SanitizeForLogging(data.vals[i])])
  ELSE IF data.type = "str" THEN ScrubString(data)
  ELSE data

NoSanitizing == [done |-> FALSE, data |-> LogInt, result |-> LogInt]

\* sanitize_for_logging is called
SanitizeCall ==
  /\ ~task.done
  /\ \E data \in LogData :
       task' = [done |-> TRUE, data |-> data, result |-> SanitizeForLogging(data)]
  /\ UNCHANGED <<cb, now, hist, bucket, bucket_lock, backoff, cred, config>>

\* the caller logs the result, and may call again
SanitizeReturn ==
  /\ task.done
  /\ task' = NoSanitizing
  /\ UNCHANGED <<cb, now, hist, bucket, bucket_lock, backoff, cred, config>>

InitSanitizer ==
  /\ task = NoSanitizing
  /\ hist = 0
  /\ now = 0
  /\ cb = NewBreaker(1, 1, 1, 1)
  /\ bucket = NewBucket(1, 1, 0)
  /\ bucket_lock = None
  /\ backoff = NewBackoff(1, 1)
  /\ cred = [cached_token |-> None, secret_token |-> None]
  /\ config = [requests_per_second |-> 1, max_retries |-> 0, retry_delay |-> 1]

NextSanitizer ==
  \/ SanitizeCall
  \/ SanitizeReturn

SpecSanitizer == InitSanitizer /\ [][NextSanitizer]_vars

\* --------------------------------------------------- metrics of the breaker
\* CircuitBreaker.get_metrics, as SafetyCultureAPIClient
\* .get_circuit_breaker_metrics returns it: the dictionary of lines 266-273;
\* failure_rate is the pair total_failures / total_calls, 0.0 the pair 0 / 1
GetMetrics(b) ==
  ("state" :> b.state) @@
  ("total_calls" :> b.total_calls) @@
  ("total_failures" :> b.total_failures) @@
  ("total_successes" :> b.total_successes) @@
  ("failure_rate" :> IF b.total_calls > 0 THEN <<b.total_failures, b.total_calls>>
                     ELSE <<0, 1>>) @@
  ("open_count" :> b.open_count) @@
  ("current_timeout" :> CalculateTimeout(b))

\* ------------------------------------- calls in flight across transitions
\* The generic breaker with, beside it, the state each call in flight was
\* admitted in: `config.admitted[t]` is the breaker's state when the first
\* critical section of t's call ended.
CallAdmitted(t) ==
  /\ task[t].pc = "idle"
  /\ cb.total_calls < MaxCalls
  /\ LET e == CallEntry(cb, now) IN
     /\ cb' = e.breaker
     /\ hist' = HistAfterEntry(hist, cb, e.breaker)
     /\ task' = [task EXCEPT ![t] =
                   IF e.admitted
                   THEN [@ EXCEPT !.pc = "in_func", !.outcome = NoError]
                   ELSE [@ EXCEPT !.pc = "idle", !.outcome = CircuitBreakerOpenError]]
     /\ config' = IF e.admitted
                  THEN [config EXCEPT !.admitted[t] = e.breaker.state]
                  ELSE config
  /\ UNCHANGED <<now, bucket, bucket_lock, backoff, cred>>

InitInFlight ==
  /\ \E ft \in 1..MaxFailureThreshold, st \in 1..MaxSuccessThreshold,
        bt \in 1..MaxBaseTimeout, mt \in 1..MaxMaxTimeout :
       cb = NewBreaker(ft, st, bt, mt)
  /\ now = 0
  /\ task = [t \in Tasks |-> NewTask]
  /\ hist = NewHist
  /\ bucket = NewBucket(1, 1, 0)
  /\ bucket_lock = None
  /\ backoff = NewBackoff(1, 1)
  /\ cred = [cached_token |-> None, secret_token |-> None]
  /\ config = [admitted |-> [t \in Tasks |-> CLOSED]]

NextInFlight ==
  \/ \E t \in Tasks : CallAdmitted(t)
  \/ \E t \in Tasks : FuncReturns(t)
  \/ \E t \in Tasks : FuncRaises(t)
  \/ Reset
  \/ Tick

SpecInFlight == InitInFlight /\ [][NextInFlight]_vars

\* ------------------------------------------------- grants of the bucket
\* Tasks calling acquire and try_acquire of one TokenBucketRateLimiter, no
\* reset(), with the log of the grants beside it: `config.grants` holds, in
\* order, the time and the number of tokens of every grant made.
GrantLog(log, tk, clock) ==
  IF tk.pc = "idle" /\ tk.result \in {"ok", "True"}
  THEN Append(log, [at |-> clock, n |-> tk.tokens_taken])
  ELSE log

\* TokenBucketRateLimiter.acquire(n) is called
RateAcquire(t) ==
  /\ task[t].pc = "idle"
  /\ hist.calls < MaxLimiterCalls
  /\ \E n \in 1..bucket.burst :
       /\ hist' = HistAfterArrival(hist, bucket, "acquire", n, now)
       /\ EnterLock(t, [NewLimiterTask EXCEPT !.op = "acquire", !.n = n])
  /\ config' = [config EXCEPT !.grants = GrantLog(@, task'[t], now)]
  /\ UNCHANGED <<cb, now, cred>>

\* TokenBucketRateLimiter.try_acquire(n) is called
RateTryAcquire(t) ==
  /\ task[t].pc = "idle"
  /\ hist.calls < MaxLimiterCalls
  /\ \E n \in 1..bucket.burst :
       /\ hist' = HistAfterArrival(hist, bucket, "try_acquire", n, now)
       /\ EnterLock(t, [NewLimiterTask EXCEPT !.op = "try_acquire", !.n = n])
  /\ config' = [config EXCEPT !.grants = GrantLog(@, task'[t], now)]
  /\ UNCHANGED <<cb, now, cred>>

\* the lock was released and a task suspended on it takes it
RateLockAcquired(t) ==
  /\ task[t].pc = "lock_wait"
  /\ bucket_lock = None
  /\ UnderLock(t, [task[t] EXCEPT !.wait_start = now])
  /\ config' = [config EXCEPT !.grants = GrantLog(@, task'[t], now)]
  /\ UNCHANGED <<cb, now, hist, cred>>

\* the sleep inside TokenBucketRateLimiter.acquire is over
RateBucketWake(t) ==
  /\ task[t].pc = "bucket_wait"
  /\ now >= task[t].wake
  /\ UnderLock(t, task[t])
  /\ config' = [config EXCEPT !.grants = GrantLog(@, task'[t], now)]
  /\ UNCHANGED <<cb, now, hist, cred>>

InitRate ==
  /\ \E rate \in 1..MaxRate, burst \in 1..MaxTokens, mw \in {0, MaxMaxWait} :
       bucket = [NewBucket(rate, burst, 0) EXCEPT !.max_wait = Ms(mw)]
  /\ bucket_lock = None
  /\ backoff = NewBackoff(1, 1)
  /\ now = 0
  /\ task = [t \in LimiterTasks |-> NewLimiterTask]
  /\ hist = NewLimiterHist
  /\ cb = NewBreaker(1, 1, 1, 1)
  /\ cred = [cached_token |-> None, secret_token |-> None]
  /\ config = [grants |-> <<>>]

NextRate ==
  \/ \E t \in LimiterTasks : RateAcquire(t)
  \/ \E t \in LimiterTasks : RateTryAcquire(t)
  \/ \E t \in LimiterTasks : RateLockAcquired(t)
  \/ \E t \in LimiterTasks : RateBucketWake(t)
  \/ LimiterClock

SpecRate == InitRate /\ [][NextRate]_vars

\* ------------------------------------------- the bucket under fair scheduling
\* Tasks calling acquire and try_acquire of one bucket as the event loop
\* runs them: time goes on while a
\* task sleeps, a task whose sleep is over is resumed, and asyncio.Lock hands
\* the lock to its waiters in the order they arrived, so that no waiter is
\* passed over for ever.
FairClock ==
  /\ \/ now + LimiterTick <= LimiterTick * MaxLimiterTicks
     \/ \E t \in LimiterTasks : task[t].pc = "bucket_wait" /\ now < task[t].wake
  /\ now' = now + LimiterTick
  /\ UNCHANGED <<cb, task, hist, clientVars>>

\* the largest max_wait and burst of the bounds, every rate: the
\* configurations with the most acquire(n) such that n / rate < max_wait
InitLimiterFair ==
  /\ InitLimiter
  /\ bucket.max_wait = Ms(MaxMaxWait)
  /\ bucket.burst = MaxTokens

NextLimiterFair ==
  \/ \E t \in LimiterTasks : LimAcquire(t)
  \/ \E t \in LimiterTasks : LimTryAcquire(t)
  \/ \E t \in LimiterTasks : LockAcquired(t)
  \/ \E t \in LimiterTasks : LimBucketWake(t)
  \/ FairClock

SpecLimiterFair ==
  /\ InitLimiterFair
  /\ [][NextLimiterFair]_vars
  /\ WF_vars(FairClock)
  /\ \A t \in LimiterTasks : WF_vars(LimBucketWake(t))
  /\ \A t \in LimiterTasks : SF_vars(LockAcquired(t))

\* --------------------------------------------- the URL that is signed
\* The part of _make_request_internal that signs the request and then builds
\* the URL it sends (lines 238-267), applied to two requests of one client
\* that differ in their query parameters only.  A URL is a record: its
\* validated part and the pairs of its query string (none: no '?').
\* `config` is the client, `task` the two attempts.
QueryParam(key, value) == [key |-> key, items |-> <<value>>]
QueryParamList(key, values) == [key |-> key, items |-> values]

\* values of `params`: None or empty, single values, lists
QueryParams ==
  { <<>>,
    <<QueryParam("limit", "10")>>,
    <<QueryParam("limit", "20")>>,
    <<QueryParam("limit", "10"), QueryParam("offset", "5")>>,
    <<QueryParamList("fields", <<"id", "name">>)>>,
    <<QueryParamList("fields", <<>>)>> }

\* lines 259-265: one key=value for every value, those of a list one by one
RECURSIVE UrlParams(_)
UrlParams(params) ==
  IF params = <<>> THEN <<>>
  ELSE LET p == Head(params) IN
       [i \in 1..Len(p.items) |-> <<p.key, p.items[i]>>] \o UrlParams(Tail(params))

\* the URL returned by the URL validator for the endpoint
ValidatedUrl(base) == [base |-> base, query |-> <<>>]

\* lines 256-267: the URL handed to session.request
RequestUrl(validated_url, params) ==
  IF params # <<>> /\ UrlParams(params) # <<>>
  THEN [validated_url EXCEPT !.query = UrlParams(params)]
  ELSE validated_url

\* lines 236-286: the attempt that is sent, its URL and its headers
SignedAttempt(client, api_token, method, base, params, body, n, clock) ==
  [ url |-> RequestUrl(ValidatedUrl(base), params),
    headers |-> AttemptHeaders(client, api_token, method, ValidatedUrl(base),
                               body, n, clock) ]

NoAttempt == [url |-> ValidatedUrl(""), headers |-> NoHeaders]

NoSigning ==
  [ done |-> FALSE, method |-> "get", base |-> "", body |-> None, time |-> 0,
    first |-> NoAttempt, second |-> NoAttempt ]

\* two requests are made at one reading of the clock
SignedCall ==
  /\ ~task.done
  /\ \E m \in Methods, u \in Urls, b \in Bodies, c \in 0..MaxHeaderTime,
        p1 \in QueryParams, p2 \in QueryParams :
       task' = [ done |-> TRUE, method |-> m, base |-> u, body |-> b, time |-> c,
                 first |-> SignedAttempt(config, "env-token", m, u, p1, b, 1, c),
                 second |-> SignedAttempt(config, "env-token", m, u, p2, b, 2, c) ]
  /\ UNCHANGED <<cb, now, hist, clientVars>>

SignedReturn ==
  /\ task.done
  /\ task' = NoSigning
  /\ UNCHANGED <<cb, now, hist, clientVars>>

InitSignedUrl ==
  /\ \E k \in SigningKeys :
       config = [max_retries |-> 0, request_signer |-> MakeSigner(k)]
  /\ task = NoSigning
  /\ hist = 0
  /\ now = 0
  /\ cb = NewBreaker(1, 1, 1, 1)
  /\ bucket = NewBucket(1, 1, 0)
  /\ bucket_lock = None
  /\ backoff = NewBackoff(1, 1)
  /\ cred = [cached_token |-> None, secret_token |-> "env-token"]

NextSignedUrl == SignedCall \/ SignedReturn

SpecSignedUrl == InitSignedUrl /\ [][NextSignedUrl]_vars

\* ------------------------------------- registration against completion
\* Concurrent AssetRepository.register_asset_for_inspection and
\* mark_asset_completed calls for one (asset_id, month_year) on one
\* initialised database.  `config` is the row of the pair in
\* asset_inspections (status "absent": no row), `task` each caller's position,
\* `hist` the calls started and the caller and operation of the last one.
\* Every statement runs on a connection of its own and is committed before
\* the next await of its caller returns.
InspectionIds == {"audit_1", "audit_2"}

NoRow == [status |-> "absent", inspection_id |-> None]

NewInspectionTask == [pc |-> "idle", op |-> "none", result |-> None]

NewInspectionHist == [calls |-> 0, caller |-> None, op |-> "none"]

\* check_asset_completed_this_month: COUNT(*) of the completed rows > 0
CheckAssetCompleted(row) == row.status = "completed"

\* INSERT OR REPLACE of lines 326-339: the row of the pair, whatever it held,
\* is replaced by a pending one without inspection_id
InsertOrReplace(row) == [status |-> "pending", inspection_id |-> None]

\* the UPDATE of update_inspection_status(status='completed', inspection_id):
\* the row it leaves and cursor.rowcount > 0
UpdateCompleted(row, inspection_id) ==
  IF row.status = "absent"
  THEN [row |-> row, result |-> "False"]
  ELSE [row |-> [status |-> "completed", inspection_id |-> inspection_id],
        result |-> "True"]

\* register_asset_for_inspection is called and makes its check (lines
\* 320-322): it returns False or goes on to the INSERT
RegisterForInspection(t) ==
  /\ task[t].pc = "idle"
  /\ hist.calls < MaxRepoCalls
  /\ hist' = [calls |-> hist.calls + 1, caller |-> t, op |-> "register"]
  /\ task' = [task EXCEPT ![t] =
       IF CheckAssetCompleted(config)
       THEN [pc |-> "idle", op |-> "register", result |-> "False"]
       ELSE [pc |-> "checked", op |-> "register", result |-> None]]
  /\ UNCHANGED <<cb, now, bucket, bucket_lock, backoff, cred, config>>

\* lines 326-345: the INSERT OR REPLACE is executed and committed
RegisterInsert(t) ==
  /\ task[t].pc = "checked"
  /\ config' = InsertOrReplace(config)
  /\ task' = [task EXCEPT ![t] = [pc |-> "idle", op |-> "register", result |-> "True"]]
  /\ UNCHANGED <<cb, now, hist, bucket, bucket_lock, backoff, cred>>

\* mark_asset_completed(asset_id, inspection_id), no metadata
MarkAssetCompleted(t) ==
  /\ task[t].pc = "idle"
  /\ hist.calls < MaxRepoCalls
  /\ \E id \in InspectionIds :
       LET u == UpdateCompleted(config, id) IN
       /\ config' = u.row
       /\ task' = [task EXCEPT ![t] = [pc |-> "idle", op |-> "complete", result |-> u.result]]
  /\ hist' = [calls |-> hist.calls + 1, caller |-> t, op |-> "complete"]
  /\ UNCHANGED <<cb, now, bucket, bucket_lock, backoff, cred>>

InitInspection ==
  /\ config = NoRow
  /\ task = [t \in RepoTasks |-> NewInspectionTask]
  /\ hist = NewInspectionHist
  /\ now = 0
  /\ cb = NewBreaker(1, 1, 1, 1)
  /\ bucket = NewBucket(1, 1, 0)
  /\ bucket_lock = None
  /\ backoff = NewBackoff(1, 1)
  /\ cred = [cached_token |-> None, secret_token |-> None]

NextInspection ==
  \/ \E t \in RepoTasks : RegisterForInspection(t)
  \/ \E t \in RepoTasks : RegisterInsert(t)
  \/ \E t \in RepoTasks : MarkAssetCompleted(t)

SpecInspection == InitInspection /\ [][NextInspection]_vars

\* ------------------------------------------------------------------ claims
\* Steps of the breaker, told by the cumulative counters only call() moves.
CallStep == cb'.total_calls = cb.total_calls + 1
SuccessStep == cb'.total_successes = cb.total_successes + 1
FailureStep == cb'.total_failures = cb.total_failures + 1
TimeoutElapsed == now - cb.last_failure_time >= CalculateTimeout(cb)

\* C1: with failure_threshold = N the breaker is still CLOSED while fewer
\* than N failures in a row have been recorded and opens exactly at the N-th;
\* a success recorded while CLOSED puts failure_count back to 0, so that N
\* further failures in a row are needed.
C1_OpensAtNthFailure ==
  /\ [](cb.state = CLOSED =>
          /\ cb.failure_count = hist.streak
          /\ hist.streak < cb.failure_threshold)
  /\ [][(cb.state = CLOSED /\ FailureStep) =>
          /\ cb'.state = (IF hist'.streak = cb.failure_threshold THEN OPEN ELSE CLOSED)
          /\ cb'.failure_count = cb.failure_count + 1]_vars
  /\ [][(cb.state = CLOSED /\ SuccessStep) =>
          /\ cb'.state = CLOSED
          /\ cb'.failure_count = 0]_vars

\* C1 witness: threshold 2; a failure, a success that reset the count, then
\* two failures in a row opened the breaker.
C1_Witness ==
  /\ cb.failure_threshold = 2
  /\ cb.state = OPEN
  /\ cb.open_count = 1
  /\ hist.streak = 2
  /\ cb.total_successes = 1
  /\ cb.total_failures = 3

\* C2: while the breaker is OPEN and less than the computed timeout has
\* passed since last_failure_time, a call by any task is rejected with
\* CircuitBreakerOpenError and the wrapped function is not invoked.
C2_OpenRejects ==
  [][(cb.state = OPEN /\ ~TimeoutElapsed /\ CallStep) =>
       /\ cb'.state = OPEN
       /\ \A t \in DOMAIN task : task'[t].pc = task[t].pc
       /\ \E t \in DOMAIN task :
            /\ task[t].pc = "idle"
            /\ task'[t].outcome = CircuitBreakerOpenError]_vars

\* C2 witness: a call was rejected while another call, admitted before the
\* breaker opened, is still in flight.
C2_Witness ==
  /\ cb.state = OPEN
  /\ ~TimeoutElapsed
  /\ \E t, u \in DOMAIN task :
       /\ task[t].pc = "idle" /\ task[t].outcome = CircuitBreakerOpenError
       /\ task[u].pc = "in_func"
  /\ cb.total_calls > cb.total_failures + cb.total_successes + 1

\* C3: once the computed timeout has passed while OPEN, the next call is
\* admitted: it moves the breaker to HALF_OPEN with success_count = 0 and
\* invokes the wrapped function.  In HALF_OPEN the breaker closes at the
\* success_threshold-th success recorded since it became HALF_OPEN, with
\* failure_count, success_count and open_count all 0, and no call closes it
\* before that.
C3_HalfOpenRecovery ==
  /\ [][(cb.state = OPEN /\ TimeoutElapsed /\ CallStep) =>
          /\ cb'.state = HALF_OPEN
          /\ cb'.success_count = 0
          /\ \E t \in DOMAIN task : task[t].pc = "idle" /\ task'[t].pc = "in_func"]_vars
  /\ [](cb.state = HALF_OPEN =>
          /\ cb.success_count = hist.ho_successes
          /\ hist.ho_successes < cb.success_threshold)
  /\ [][(cb.state = HALF_OPEN /\ SuccessStep) =>
          IF hist'.ho_successes = cb.success_threshold
          THEN /\ cb'.state = CLOSED
               /\ cb'.failure_count = 0
               /\ cb'.success_count = 0
               /\ cb'.open_count = 0
          ELSE /\ cb'.state = HALF_OPEN
               /\ cb'.success_count = cb.success_count + 1]_vars
  /\ [][(cb.state = HALF_OPEN /\ cb'.state = CLOSED /\ (CallStep \/ FailureStep \/ SuccessStep)) =>
          /\ SuccessStep
          /\ hist'.ho_successes = cb.success_threshold]_vars

\* C3 witness: the breaker opened, was probed, and two successes closed it.
C3_Witness ==
  /\ cb.success_threshold = 2
  /\ cb.state = CLOSED
  /\ hist.ho_successes = 2
  /\ cb.total_failures >= 1
  /\ cb.open_count = 0
  /\ cb.failure_count = 0
  /\ cb.last_failure_time + cb.base_timeout <= now

\* C4: a failure recorded while HALF_OPEN reopens the breaker in that step,
\* whatever success_count was: open_count grows by exactly one,
\* last_failure_time is the time of the failure and success_count is 0.
C4_HalfOpenFailureReopens ==
  [][(cb.state = HALF_OPEN /\ FailureStep) =>
       /\ cb'.state = OPEN
       /\ cb'.open_count = cb.open_count + 1
       /\ cb'.last_failure_time = now
       /\ cb'.success_count = 0]_vars

\* C4 witness: reopened from HALF_OPEN after one success had been counted.
C4_Witness ==
  /\ cb.success_threshold = 2
  /\ cb.state = OPEN
  /\ cb.open_count = 2
  /\ hist.ho_successes = 1
  /\ cb.success_count = 0
  /\ cb.last_failure_time = now
  /\ now > 0

\* A request leaves the breaker's first critical section rejected.
Rejected(tk) ==
  /\ tk.pc = "idle"
  /\ tk.outcome = CircuitBreakerOpenError
  /\ tk.responses = <<>>
  /\ tk.tokens_taken = 0

\* C5 as stated: after 5 requests in a row that each ended in a server or
\* network error, the next request raises CircuitBreakerOpenError, starts no
\* HTTP attempt and takes no token.
C5_SixthRequestRejected ==
  [][(hist.http_streak >= CIRCUIT_BREAKER_FAILURE_THRESHOLD /\ CallStep) =>
       /\ \A t \in DOMAIN task : Rejected(task'[t]) \/ task'[t] = task[t]
       /\ \E t \in DOMAIN task : task[t].pc = "idle" /\ Rejected(task'[t])
       /\ bucket' = bucket]_vars

\* C5 amended: ... the next request, when it is made before the breaker's
\* computed timeout has passed since the 5th failure, raises
\* CircuitBreakerOpenError, starts no HTTP attempt and takes no token.  Each
\* request counts as one failure however many retries it made: in CLOSED,
\* failure_count is the number of requests that failed in a row.
C5_SixthRequestRejectedInTime ==
  /\ [](hist.http_streak >= CIRCUIT_BREAKER_FAILURE_THRESHOLD => cb.state # CLOSED)
  /\ [](cb.state = CLOSED => cb.failure_count = hist.streak)
  /\ [][(hist.http_streak >= CIRCUIT_BREAKER_FAILURE_THRESHOLD
           /\ ~TimeoutElapsed /\ CallStep) =>
          /\ \A t \in DOMAIN task : Rejected(task'[t]) \/ task'[t] = task[t]
          /\ \E t \in DOMAIN task : task[t].pc = "idle" /\ Rejected(task'[t])
          /\ bucket' = bucket]_vars

\* C5 witness: five requests, each retried once, failed; the sixth was
\* rejected within the timeout.
C5_Witness ==
  /\ config.max_retries = 1
  /\ hist.http_streak = 5
  /\ cb.total_failures = 5
  /\ cb.total_calls = 6
  /\ cb.state = OPEN
  /\ ~TimeoutElapsed
  /\ \E t \in DOMAIN task : Rejected(task[t])

\* C6 as stated: a request that fails before any HTTP attempt with
\* SafetyCultureValidationError or SafetyCultureCredentialError leaves the
\* breaker's state and failure_count unchanged.
C6_PreflightErrorsNotCounted ==
  [][\A t \in DOMAIN task :
       (/\ task[t].pc # "idle"
        /\ task'[t].pc = "idle"
        /\ task'[t].outcome \in {ValidationError, CredentialError}) =>
       (cb'.state = cb.state /\ cb'.failure_count = cb.failure_count)]_vars

\* C7 as stated: a request that failed validation has deducted no token.
C7_ValidationBeforeAcquire ==
  \A t \in DOMAIN task :
    task[t].outcome = ValidationError => task[t].tokens_taken = 0

\* C8: validation and authentication failures are not retried: a request
\* that raised SafetyCultureValidationError made no HTTP attempt and no retry
\* sleep; a 401 answer ends the request with SafetyCultureAuthError at once,
\* so a request answered 401 made exactly one attempt and no retry sleep,
\* whatever max_retries is.
C8_NoRetryOnValidationOrAuth ==
  \A t \in DOMAIN task :
    /\ task[t].outcome = ValidationError =>
         (task[t].responses = <<>> /\ task[t].sleeps = <<>>)
    /\ \A i \in DOMAIN task[t].responses :
         task[t].responses[i].status = 401 =>
           /\ i = Len(task[t].responses)
           /\ Len(task[t].sleeps) = i - 1
           /\ task[t].pc = "idle"
           /\ task[t].outcome = AuthError

\* C8 witness: two retries are configured and the first answer was 401.
C8_Witness ==
  /\ config.max_retries = 2
  /\ \E t \in DOMAIN task :
       /\ Len(task[t].responses) = 1
       /\ task[t].responses[1].status = 401
       /\ task[t].outcome = AuthError
       /\ task[t].sleeps = <<>>

\* C9: a 429 answer ends the request with SafetyCultureRateLimitError that
\* carries the Retry-After header value, 60 when the header is absent; no
\* further attempt and no sleep follow it, so a request answered 429 made
\* exactly one attempt.
C9_RateLimit429 ==
  \A t \in DOMAIN task :
    \A i \in DOMAIN task[t].responses :
      task[t].responses[i].status = 429 =>
        /\ i = Len(task[t].responses)
        /\ Len(task[t].sleeps) = i - 1
        /\ task[t].pc = "idle"
        /\ task[t].outcome = RateLimitError
        /\ task[t].retry_after =
             (IF task[t].responses[i].retry_after = None
              THEN "60" ELSE task[t].responses[i].retry_after)

\* C9 witness: retries are configured, the only answer was a 429 without a
\* Retry-After header.
C9_Witness ==
  /\ config.max_retries = 2
  /\ \E t \in DOMAIN task :
       /\ Len(task[t].responses) = 1
       /\ task[t].responses[1].status = 429
       /\ task[t].responses[1].retry_after = None
       /\ task[t].outcome = RateLimitError
       /\ task[t].retry_after = "60"

\* C10: a request whose every attempt was answered by a 5xx response or a
\* network error makes exactly max_retries + 1 attempts, sleeps
\* retry_delay * 2^k before retry k+1, and then raises SafetyCultureAPIError
\* with the status code of the last answer when that was an HTTP response.
C10_RetriesThenAPIError ==
  \A t \in DOMAIN task :
    /\ Len(task[t].responses) <= config.max_retries + 1
    /\ \A k \in DOMAIN task[t].sleeps :
         task[t].sleeps[k] = config.retry_delay * (2 ^ (k - 1))
    /\ (/\ task[t].pc = "idle"
        /\ task[t].responses # <<>>
        /\ \A i \in DOMAIN task[t].responses :
             \/ task[t].responses[i].kind = "client_error"
             \/ task[t].responses[i].status >= 500) =>
         /\ Len(task[t].responses) = config.max_retries + 1
         /\ Len(task[t].sleeps) = config.max_retries
         /\ task[t].outcome = APIError
         /\ LET last == task[t].responses[Len(task[t].responses)] IN
            task[t].status_code = (IF last.kind = "response" THEN last.status ELSE 0)

\* C10 witness: two retries configured, three attempts answered network
\* error, 500, 500; the request ended in SafetyCultureAPIError with status 500.
C10_Witness ==
  /\ config.max_retries = 2
  /\ \E t \in DOMAIN task :
       /\ task[t].pc = "idle"
       /\ Len(task[t].responses) = 3
       /\ task[t].responses[1].kind = "client_error"
       /\ task[t].responses[3].status = 500
       /\ task[t].sleeps = <<1, 2>>
       /\ task[t].outcome = APIError
       /\ task[t].status_code = 500

\* C11 as stated: a request that made an HTTP attempt and failed ends in
\* SafetyCultureAPIError or one of its subclasses (SafetyCultureAuthError,
\* SafetyCultureRateLimitError), also after a transport timeout and after a
\* 2xx response whose body is not valid JSON.
C11_TypedErrorsOnly ==
  \A t \in DOMAIN task :
    (/\ task[t].pc = "idle"
     /\ task[t].responses # <<>>
     /\ task[t].outcome # "ok") =>
    task[t].outcome \in {APIError, AuthError, RateLimitError}

\* The task whose code runs in the step: the only one whose record may change,
\* either resumed from a suspension or starting a call.
ActsInStep(t) ==
  /\ \A u \in DOMAIN task : u # t => task'[u] = task[u]
  /\ (task[t].pc # "idle" \/ hist'.calls = hist.calls + 1)

\* the step ends a call of t that was granted its n tokens
GrantedInStep(t) ==
  /\ ActsInStep(t)
  /\ task'[t].pc = "idle"
  /\ task'[t].op \in {"acquire", "try_acquire"}
  /\ task'[t].result \in {"ok", "True"}
  /\ task'[t].tokens_taken = task'[t].n
  /\ task'[t].n >= 1

\* C12: under any interleaving of acquire(n), try_acquire(n) (1 <= n <= burst)
\* and reset() by concurrent tasks, 0 <= tokens <= burst, and tokens goes
\* down only in a step that grants an acquisition: it is then the refilled
\* amount less exactly the n granted.
C12_BucketBounds ==
  /\ [](0 <= bucket.tokens /\ bucket.tokens <= 1000 * bucket.burst)
  /\ [][bucket'.tokens < bucket.tokens =>
          \E t \in DOMAIN task :
            /\ GrantedInStep(t)
            /\ bucket'.tokens =
                 Min(1000 * bucket.burst,
                     bucket.tokens + (now - bucket.last_update) * bucket.rate)
                 - 1000 * task'[t].n]_vars

\* C12 witness: try_acquire(2) emptied the bucket while the other task is
\* suspended inside acquire with the lock held; three calls were made.
C12_Witness ==
  /\ bucket.burst = 2
  /\ bucket.tokens < 1000
  /\ hist.calls = 3
  /\ \E t, u \in DOMAIN task :
       /\ task[t].op = "try_acquire" /\ task[t].result = "True"
       /\ task[t].tokens_taken = 2
       /\ task[u].op = "acquire" /\ task[u].pc = "bucket_wait"

\* C13: while every call so far is an acquire(1) that arrived at least
\* 1/rate after the call before it, no call has raised
\* SafetyCultureRateLimitError; each was granted on arrival.
C13_PacedAcquiresSucceed ==
  hist.spaced =>
    \A t \in DOMAIN task :
      /\ task[t].result # RateLimitError
      /\ task[t].pc = "idle"

\* C13 witness: burst 1, rate 2 per second, max_wait 0: three calls, each
\* 1/rate after the one before, all granted, the bucket empty again.
C13_Witness ==
  /\ hist.spaced
  /\ hist.calls = 3
  /\ bucket.burst = 1 /\ bucket.rate = 2 /\ bucket.max_wait = 0
  /\ bucket.tokens = 0
  /\ hist.last_arrival * bucket.rate = 2000
  /\ \E t \in DOMAIN task : task[t].result = "ok" /\ task[t].tokens_taken = 1

\* C14 as stated: try_acquire returns without waiting, also while another
\* task is suspended inside acquire: a task in try_acquire is never suspended.
C14_TryAcquireNeverWaits ==
  \A t \in DOMAIN task : task[t].op = "try_acquire" => task[t].pc = "idle"

\* C15 as stated: when ExponentialBackoffRateLimiter.acquire returns
\* successfully, on the first attempt or on the retry after the backoff
\* sleep, current_backoff is initial_backoff and consecutive_failures is 0.
C15_BackoffResetOnAnySuccess ==
  [][\A t \in DOMAIN task :
       (/\ ActsInStep(t)
        /\ task'[t].pc = "idle"
        /\ task'[t].op = "acquire"
        /\ task'[t].phase \in {1, 2}
        /\ task'[t].result = "ok") =>
       (/\ backoff'.current_backoff = backoff'.initial_backoff
        /\ backoff'.consecutive_failures = 0)]_vars

\* C16: an acquire whose first bucket acquisition is rejected sleeps the
\* current_backoff of that moment; when the sleep is over current_backoff
\* becomes min(max_backoff, current_backoff * backoff_multiplier): larger
\* than before while it was below max_backoff, and never above max_backoff.
\* The invocation then tries the bucket once more and does not back off a
\* second time.
C16_BackoffGrowsCapped ==
  /\ [](/\ backoff.initial_backoff <= backoff.current_backoff
        /\ backoff.current_backoff <= backoff.max_backoff)
  /\ [](\A t \in DOMAIN task : Len(task[t].sleeps) <= 1)
  /\ [][\A t \in DOMAIN task :
          (task[t].pc # "backoff_sleep" /\ task'[t].pc = "backoff_sleep") =>
            /\ task[t].phase = 1
            /\ task'[t].sleeps = <<backoff.current_backoff>>
            /\ task'[t].wake = now + 1000 * backoff.current_backoff
            /\ backoff'.current_backoff = backoff.current_backoff]_vars
  /\ [][\A t \in DOMAIN task :
          (task[t].pc = "backoff_sleep" /\ task'[t].pc # "backoff_sleep") =>
            /\ now >= task[t].wake
            /\ task'[t].phase = 2
            /\ backoff'.current_backoff =
                 Min(backoff.max_backoff,
                     backoff.current_backoff * backoff.backoff_multiplier)
            /\ (backoff.current_backoff < backoff.max_backoff =>
                  backoff'.current_backoff > backoff.current_backoff)]_vars

\* C16 witness: two rejections in a row; the second slept 2 s and the backoff
\* was then capped at max_backoff = 3 instead of 4.
C16_Witness ==
  /\ backoff.max_backoff = 3
  /\ backoff.current_backoff = 3
  /\ backoff.consecutive_failures = 2
  /\ \E t \in DOMAIN task : task[t].sleeps = <<2>> /\ task[t].phase = 2

C18_FirstTimeoutIsBase ==
  [][(/\ cb.state = OPEN
      /\ cb.open_count = 1
      /\ CallStep
      /\ now - cb.last_failure_time >= cb.base_timeout) =>
       cb'.state = HALF_OPEN]_vars

\* C19: a call rejected with CircuitBreakerOpenError changes nothing of the
\* breaker but total_calls: state, failure_count, success_count, open_count,
\* last_failure_time and total_failures stay, and with them the time at which
\* the breaker becomes eligible for HALF_OPEN.
C19_RejectionChangesNothing ==
  [][(/\ CallStep
      /\ \E t \in DOMAIN task :
           /\ task[t].pc = "idle" /\ task'[t].pc = "idle"
           /\ task'[t].outcome = CircuitBreakerOpenError
           /\ \A u \in DOMAIN task : u # t => task'[u] = task[u]) =>
       /\ cb' = [cb EXCEPT !.total_calls = @ + 1]
       /\ cb'.last_failure_time + CalculateTimeout(cb')
            = cb.last_failure_time + CalculateTimeout(cb)]_vars

\* C19 witness: the calls of both tasks were rejected, later than the failure
\* that opened the breaker, which is still the last failure recorded.
C19_Witness ==
  /\ cb.state = OPEN
  /\ cb.total_calls = cb.total_failures + cb.total_successes + 2
  /\ cb.last_failure_time < now
  /\ cb.last_failure_time > 0
  /\ \A t \in DOMAIN task :
       task[t].pc = "idle" /\ task[t].outcome = CircuitBreakerOpenError

\* C20: verifying the signature that sign_request produced for (method, url,
\* body, t), with the same method, url, t and body, gives True if and only if
\* -60 <= now - t <= timestamp_window, now being the time of verification.
C20_VerifyWindow ==
  (task.verified.done /\ task.verified.request = task.signed) =>
    (task.verified.result <=>
       (/\ -60 <= task.verified.at - task.signed.timestamp
        /\ task.verified.at - task.signed.timestamp <= config.timestamp_window))

\* C20 witness: a correctly signed request with a caller-given timestamp 61
\* seconds ahead was verified at once and rejected.
C20_Witness ==
  /\ task.verified.done
  /\ task.verified.request = task.signed
  /\ task.verified.at - task.signed.timestamp = -61
  /\ ~task.verified.result
  /\ task.signed.method = "get"
  /\ task.signed.body = EmptyBody

\* C21 as stated: with the timestamp inside the window, verifying the
\* signature against a request whose URL or body differs from the signed one
\* (a body of no value and an empty body count as different) gives False.
C21_TamperingDetected ==
  (/\ task.verified.done
   /\ task.verified.request.method = task.signed.method
   /\ task.verified.request.timestamp = task.signed.timestamp
   /\ -60 <= task.verified.at - task.signed.timestamp
   /\ task.verified.at - task.signed.timestamp <= config.timestamp_window
   /\ \/ task.verified.request.url # task.signed.url
      \/ task.verified.request.body # task.signed.body) =>
    ~task.verified.result

\* C22 as stated: once revoke_token was called and until a rotate_token has
\* succeeded, every get_api_token raises SafetyCultureCredentialError.
C22_RevokedUntilRotated ==
  (hist.revoked /\ task.op = "get_api_token") => task.result = CredentialError

\* C23: rotate_token(new) with a non-empty string puts new in the cache in
\* that step and the get_api_token that follows returns new; with an empty or
\* non-string value it raises SafetyCultureValidationError and the cached
\* token is what it was.
C23_RotateToken ==
  /\ [](task.op = "rotate_token" =>
          IF task.arg.kind = "str" /\ task.arg.text # ""
          THEN task.result = "ok" /\ cred.cached_token = task.arg.text
          ELSE task.result = ValidationError /\ cred.cached_token = task.before)
  /\ [][(/\ task.op = "rotate_token" /\ task.result = "ok"
         /\ hist'.calls = hist.calls + 1
         /\ task'.op = "get_api_token") =>
          task'.result = task.arg.text]_vars

\* C23 witness: with a token in the environment, tok-a was rotated in and
\* returned by get_api_token, then a rotation with the empty string failed and
\* the cache still holds tok-a.
C23_Witness ==
  /\ cred.secret_token = "env-token"
  /\ cred.cached_token = "tok-a"
  /\ task.op = "rotate_token"
  /\ task.arg = [kind |-> "str", text |-> ""]
  /\ task.result = ValidationError
  /\ task.before = "tok-a"
  /\ task.prev = "get_api_token"

CancelStep(t) ==
  /\ task[t].pc # "idle"
  /\ task'[t].pc = "idle"
  /\ task'[t].outcome = CancelledError

C26_RequiredHeaders ==
  \A t \in ClientTasks :
    task[t].pc = "http" =>
      LET h == task[t].headers IN
      /\ {"Authorization", "Content-Type", "Accept", "X-Request-ID",
          "X-Request-Time"} \subseteq DOMAIN h
      /\ h["Authorization"] = <<"Bearer", task[t].token>>
      /\ h["Content-Type"] = "application/json"
      /\ h["Accept"] = "application/json"

\* C27: with a signing key configured every HTTP attempt, retries included,
\* carries X-Signature, X-Timestamp and X-Signature-Algorithm = HMAC-SHA256;
\* with none configured (unset or empty) no attempt carries any of the three.
C27_SigningOptional ==
  \A t \in ClientTasks :
    task[t].pc = "http" =>
      LET h == task[t].headers
          signing == {"X-Signature", "X-Timestamp", "X-Signature-Algorithm"}
      IN
      IF config.request_signer.signing_key # ""
      THEN /\ signing \subseteq DOMAIN h
           /\ h["X-Signature-Algorithm"] = "HMAC-SHA256"
           /\ h["X-Signature"] =
                Hmac(config.request_signer.signing_key,
                     <<Upper(task[t].method), task[t].url, BodyStr(task[t].body),
                       h["X-Timestamp"][2]>>)
      ELSE signing \cap DOMAIN h = {}

\* C27 witness: a client with a signing key has its second retry in flight,
\* signed.
C27_Witness ==
  \E t \in ClientTasks :
    /\ task[t].pc = "http"
    /\ task[t].retry_count = 2
    /\ config.request_signer.signing_key = "test_signing_key"
    /\ "X-Signature" \in DOMAIN task[t].headers

\* the number a parameter value stands for lies outside lo..hi
NumericOutside(v, lo, hi) ==
  IF v.kind \in {"int", "bool"} THEN v.n < lo \/ v.n > hi
  ELSE IF v.kind = "float" THEN v.n < lo * 10 \/ v.n > hi * 10
  ELSE IF v.kind = "str" /\ v.cls = "digits" /\ v.ctrl = 0
  THEN IntOfDigits(v.text) < lo \/ IntOfDigits(v.text) > hi
  ELSE FALSE

\* C28 as stated: in a mapping validate_params returns, limit and offset are
\* integers in their ranges and every other value is a string, or a list of
\* strings, none longer than MAX_STRING_LENGTH.
C28_ValuesBounded ==
  (task.done /\ task.exc = NoError) =>
    \A k \in DOMAIN task.validated :
      LET v == task.validated[k] IN
      IF k = "limit" THEN v.kind = "int" /\ v.n >= 1 /\ v.n <= MAX_LIMIT
      ELSE IF k = "offset" THEN v.kind = "int" /\ v.n >= 0 /\ v.n <= MAX_OFFSET
      ELSE IF v.kind = "list"
      THEN \A i \in 1..Len(v.items) :
             v.items[i].kind = "str" /\ v.items[i].n <= MAX_STRING_LENGTH
      ELSE v.kind = "str" /\ v.n <= MAX_STRING_LENGTH

\* C29 as stated: validate_params raises SafetyCultureValidationError for a
\* mapping with a key outside the whitelist, a limit outside 1..1000 or an
\* offset outside 0..100000; in a mapping it returns, limit and offset are
\* integers in those ranges; the caller's mapping is as it was.
C29_ValidateParams ==
  task.done =>
    /\ (\/ \E k \in DOMAIN task.params : k \notin ALLOWED_PARAMS
        \/ /\ "limit" \in DOMAIN task.params
           /\ NumericOutside(task.params["limit"], 1, MAX_LIMIT)
        \/ /\ "offset" \in DOMAIN task.params
           /\ NumericOutside(task.params["offset"], 0, MAX_OFFSET)) =>
          task.exc = ValidationError
    /\ task.exc = NoError =>
          /\ "limit" \in DOMAIN task.validated =>
                /\ task.validated["limit"].kind = "int"
                /\ task.validated["limit"].n \in 1..MAX_LIMIT
          /\ "offset" \in DOMAIN task.validated =>
                /\ task.validated["offset"].kind = "int"
                /\ task.validated["offset"].n \in 0..MAX_OFFSET
    /\ task.after = task.params

\* the key names a sensitive field: authorization, api-key or token, alone or
\* as part of the name, in any case
NamesSensitiveField(k) ==
  Lower(k) \in {"authorization", "x-api-key", "api-key", "api-token", "token"}

\* every value under a sensitive key, at any depth, is the redaction marker
RECURSIVE AllRedacted(_)
AllRedacted(data) ==
  IF data.type = "dict"
  THEN \A i \in 1..Len(data.keys) :
         IF NamesSensitiveField(data.keys[i])
         THEN data.vals[i] = LogStr(REDACTED, "none")
         ELSE AllRedacted(data.vals[i])
  ELSE \A i \in 1..Len(data.vals) : AllRedacted(data.vals[i])

\* the keys and items of b are those of a, below every key that is not sensitive
RECURSIVE SameStructure(_, _)
SameStructure(a, b) ==
  IF a.type = "dict"
  THEN /\ b.type = "dict"
       /\ b.keys = a.keys
       /\ \A i \in 1..Len(a.keys) :
            NamesSensitiveField(a.keys[i]) \/ SameStructure(a.vals[i], b.vals[i])
  ELSE IF a.type \in {"list", "tuple"}
  THEN /\ b.type = "list"
       /\ Len(b.vals) = Len(a.vals)
       /\ \A i \in 1..Len(a.vals) : SameStructure(a.vals[i], b.vals[i])
  ELSE b.type = a.type

\* C30 as stated: in the result of sanitize_for_logging the value of every key
\* that names a sensitive field (authorization, api-key, token) is the
\* redaction marker, at any depth of mappings and sequences, and every other
\* key keeps its structure.
C30_SensitiveKeysRedacted ==
  task.done =>
    /\ AllRedacted(task.result)
    /\ SameStructure(task.data, task.result)

\* C31 as stated: the metrics of the client's breaker hold failure_count, and
\* once failure_threshold failures were recorded in a row its value is at
\* least failure_threshold.
C31_MetricsFailureCount ==
  /\ "failure_count" \in DOMAIN GetMetrics(cb)
  /\ hist.streak >= cb.failure_threshold =>
        GetMetrics(cb)["failure_count"] >= cb.failure_threshold

\* C32 as stated: the success of a call that was admitted while the breaker
\* was CLOSED and that returns while it is HALF_OPEN does not count toward
\* success_threshold: success_count stays and the breaker stays HALF_OPEN.
C32_StaleSuccessNotCounted ==
  [][\A t \in Tasks :
       (/\ task[t].pc = "in_func"
        /\ task'[t].pc = "idle"
        /\ task'[t].outcome = "ok"
        /\ cb.state = HALF_OPEN
        /\ config.admitted[t] = CLOSED) =>
         /\ cb'.success_count = cb.success_count
         /\ cb'.state = HALF_OPEN]_vars

\* C33: in every state reachable by interleaved calls and reset(), CLOSED
\* implies open_count = 0, success_count = 0 and failure_count below
\* failure_threshold; OPEN implies open_count >= 1 and success_count = 0;
\* HALF_OPEN implies open_count >= 1 and success_count below
\* success_threshold; and open_count returns to 0 only in a step that sets
\* the state to CLOSED.
C33_BreakerInvariants ==
  /\ [](/\ cb.state = CLOSED =>
             /\ cb.open_count = 0
             /\ cb.success_count = 0
             /\ cb.failure_count < cb.failure_threshold
        /\ cb.state = OPEN =>
             /\ cb.open_count >= 1
             /\ cb.success_count = 0
        /\ cb.state = HALF_OPEN =>
             /\ cb.open_count >= 1
             /\ cb.success_count < cb.success_threshold)
  /\ [][(cb.open_count # 0 /\ cb'.open_count = 0) => cb'.state = CLOSED]_vars

\* A second opening is being probed with one success recorded while another
\* call is still in flight.
C33_Witness ==
  /\ cb.state = HALF_OPEN
  /\ cb.success_count >= 1
  /\ cb.open_count >= 2
  /\ \E t \in Tasks : task[t].pc = "in_func"

\* number of HTTP attempts the request of task t has started
AttemptsStarted(tk) ==
  Len(tk.responses) + (IF tk.pc = "http" THEN 1 ELSE 0)

RECURSIVE GrantedBetween(_, _, _)
GrantedBetween(log, i, j) ==
  IF i > j THEN 0 ELSE log[i].n + GrantedBetween(log, i + 1, j)

\* C35: without reset(), the tokens granted by acquire and try_acquire to
\* all callers in any interval of length T are at most burst + rate * T
\* (in thousandths of a token, T in milliseconds).  The intervals that
\* matter begin and end at a grant.
C35_AdmissionRateBounded ==
  \A i \in 1..Len(config.grants) : \A j \in i..Len(config.grants) :
    1000 * GrantedBetween(config.grants, i, j) <=
      1000 * bucket.burst + bucket.rate * (config.grants[j].at - config.grants[i].at)

\* Both tasks were granted tokens, at different times, and the grants made
\* from the first to the last use up the bound exactly.
C35_Witness ==
  LET log == config.grants IN
  /\ Len(log) >= 2
  /\ log[Len(log)].at > log[1].at
  /\ \A t \in LimiterTasks : task[t].tokens_taken > 0
  /\ 1000 * GrantedBetween(log, 1, Len(log)) =
        1000 * bucket.burst + bucket.rate * (log[Len(log)].at - log[1].at)

\* the call of task tk is an acquire(n) with n / rate < max_wait
\* (1 <= n <= burst and rate > 0 hold for every acquire that enters the lock)
AcquireWithinMaxWait(tk) ==
  /\ tk.op = "acquire"
  /\ tk.n >= 1
  /\ tk.n <= bucket.burst
  /\ 1000 * tk.n < bucket.rate * bucket.max_wait

\* C36: with rate > 0, 1 <= n <= burst and n / rate < max_wait, an
\* acquire(n) never raises SafetyCultureRateLimitError, and under fair
\* scheduling it returns with its n tokens whatever the other callers do.
C36_AcquireReturns ==
  /\ [](\A t \in LimiterTasks :
          AcquireWithinMaxWait(task[t]) => task[t].result # RateLimitError)
  /\ \A t \in LimiterTasks :
       (AcquireWithinMaxWait(task[t]) /\ task[t].pc # "idle")
         ~> (/\ task[t].pc = "idle"
             /\ task[t].result = "ok"
             /\ task[t].tokens_taken = task[t].n)

\* One such acquire sleeps under the lock for its tokens while another one
\* waits for the lock.
C36_Witness ==
  \E t, u \in LimiterTasks :
    /\ t # u
    /\ AcquireWithinMaxWait(task[t])
    /\ AcquireWithinMaxWait(task[u])
    /\ task[t].pc = "bucket_wait"
    /\ task[u].pc = "lock_wait"
    /\ bucket.tokens < 1000 * task[t].n

\* the signature that covers the URL of the attempt as it is sent
SignatureOfSentUrl(a) ==
  SignRequest(config.request_signer, task.method, a.url, task.body, task.time).signature

\* C37 as stated: with signing enabled the signature of an attempt covers the
\* URL that is sent, query string included, and two requests that differ
\* only in their query string get different signatures.
C37_SignatureCoversQuery ==
  (task.done /\ SigningEnabled(config.request_signer)) =>
    /\ task.first.headers["X-Signature"] = SignatureOfSentUrl(task.first)
    /\ task.second.headers["X-Signature"] = SignatureOfSentUrl(task.second)
    /\ task.first.url # task.second.url =>
          task.first.headers["X-Signature"] # task.second.headers["X-Signature"]

\* C38 as stated: once a rotate_token(new) has succeeded that replaced the
\* token of the secret source in the cache, no later get_api_token returns
\* that token, whatever revoke_token and get_api_token calls follow.
C38_SupersededTokenNeverReturned ==
  (task.op = "get_api_token" /\ hist.superseded # None) =>
     task.result # hist.superseded

\* the step is one of register_asset_for_inspection called by t: its check,
\* or its INSERT
RegisterStep(t) ==
  \/ task[t].pc = "checked" /\ task'[t].pc = "idle"
  \/ /\ hist'.calls = hist.calls + 1
     /\ hist'.caller = t
     /\ hist'.op = "register"

\* C39 as stated: while the row of the pair has status completed, a step of
\* register_asset_for_inspection, begun before or after the completion,
\* leaves the row as it is (status and inspection_id) and the call returns
\* False.
C39_CompletedRowKept ==
  [][\A t \in RepoTasks :
       (config.status = "completed" /\ RegisterStep(t)) =>
          /\ config' = config
          /\ task'[t].pc = "idle"
          /\ task'[t].result = "False"]_vars

====
